---- MODULE Spec2Model ----
(***************************************************************************)
(* Model of the gnext build pipeline (src/commands/build.ts) together with *)
(* the project probes (src/utils/project.ts), the shell wrapper            *)
(* (src/utils/shell.ts) and the GNOME host helpers (src/utils/gnome.ts).   *)
(*                                                                         *)
(* The filesystem is a function from paths (tuples of path components) to  *)
(* file contents; its DOMAIN is the set of entries that exist.  Archives   *)
(* under build/ are kept in zips, a function from archive file name to the *)
(* set of <<member path, content>> pairs the archive holds.  External      *)
(* tools are nondeterministic in their exit code; their effect on the      *)
(* filesystem when they exit zero is the documented effect of the tool.    *)
(***************************************************************************)
EXTENDS Integers, Sequences, FiniteSets, TLC

(***************************************************************************)
(* Bounds                                                                  *)
(***************************************************************************)
\* number of gnext build invocations run one after the other
MaxBuilds == 2

(***************************************************************************)
(* Names                                                                   *)
(***************************************************************************)
\* uuid field of metadata.json, version field of package.json
ExtUuid == "ext@gnext"
PkgVersion == "1.0.0"

\* marks a directory entry (an explicitly created, possibly empty directory)
DirMark == "<dir>"
\* value of resourceTarget when no resource blob was produced
Null == <<>>
\* content of a file the user keeps in the source tree
UserContent == "user"
LicenseText == "MIT"

StageOrder ==
  <<"Inspect", "Compile", "Translate", "Resources", "Schemas", "Package",
    "Install", "Enable", "Reload">>

\* position of a stage in the orchestrator's fixed order; the two endings of
\* the install tail (reload, manual-reload notice) share the last position
StageIndex(s) ==
  CASE s = "Inspect" -> 1
    [] s = "Compile" -> 2
    [] s = "Translate" -> 3
    [] s = "Resources" -> 4
    [] s = "Schemas" -> 5
    [] s = "Package" -> 6
    [] s = "Install" -> 7
    [] s = "Enable" -> 8
    [] s = "Reload" -> 9
    [] s = "NotifyManualReload" -> 9

(***************************************************************************)
(* Paths and the filesystem                                                *)
(***************************************************************************)
\* path.join(dir, name)
Join(dir, name) == Append(dir, name)

IsPrefix(d, p) == Len(d) <= Len(p) /\ SubSeq(p, 1, Len(d)) = d

\* path.relative(from, to) for a path below from
Relative(from, to) == SubSeq(to, Len(from) + 1, Len(to))

\* project.fileExists: fs.access succeeds for a file or a directory; a
\* directory exists when it was created explicitly or holds an entry
FileExists(f, p) == \E q \in DOMAIN f : IsPrefix(p, q)

\* fs.writeFile / the destination side of fs.copy
WriteFile(f, p, c) == [q \in (DOMAIN f) \cup {p} |-> IF q = p THEN c ELSE f[q]]

\* fs.remove: removes a file or a whole directory; no error when absent
RemovePath(f, p) == [q \in {r \in DOMAIN f : ~IsPrefix(p, r)} |-> f[q]]

\* fs.ensureDir
EnsureDir(f, d) == IF FileExists(f, d) THEN f ELSE WriteFile(f, d, DirMark)

\* fs.copy(src, dest) of a regular file; overwrites the destination
CopyFile(f, from, to) == WriteFile(f, to, f[from])

\* the regular files below directory d
FilesUnder(f, d) == {q \in DOMAIN f : IsPrefix(d, q) /\ q # d /\ f[q] # DirMark}

\* fs.readdir(d): the names directly inside d (files and directories)
ReadDir(f, d) == {q[Len(d) + 1] : q \in {r \in DOMAIN f : IsPrefix(d, r) /\ r # d}}

\* String.prototype.endsWith over the file names of the model
EndsWith(name, suffix) ==
  CASE suffix = ".po" -> name \in {"en.po", "fr.po"}
    [] suffix = ".ts" -> name \in {"extension.ts"}
    [] OTHER -> FALSE

\* path.basename(poFile, ".po")
Basename(name) ==
  CASE name = "en.po" -> "en"
    [] name = "fr.po" -> "fr"
    [] OTHER -> name

\* `${uuid}.shell-extension-v${version}.zip`
ZipName(u, v) == u \o ".shell-extension-v" \o v \o ".zip"

\* `${uuid}.gresource`
GresourceName(u) == u \o ".gresource"

VARIABLES
  fs,          \* the project directory
  zips,        \* archives under build/: file name -> set of members
  nbuilds,     \* number of build invocations started so far
  prevInstall, \* "failed" when installExtension failed in the invocation before this one
  pc,          \* position of the running buildCommand
  opts,        \* BuildOptions of the running invocation
  argv,        \* command-line flags the invocation was started with
  reads,       \* identity reads (Promise.all) that have resolved
  probes,      \* filesystem probes (Promise.all) that have resolved
  uuid,        \* metadata.uuid
  version,     \* packageJson.version
  flags,       \* usesTS, hasTranslations, hasResources, hasSchemas
  jsDir,       \* "dist" or "src"
  resourceTarget, \* path of the resource blob, or Null
  started,     \* stages entered by this invocation, in order
  finished,    \* stages that returned normally, in order
  failedStage, \* stage whose error reached the catch block, or "none"
  errorMsg,    \* message handed to logger.error by the catch block
  exitCode,    \* process exit status; -1 while the process runs
  succeeded,   \* "Extension built successfully!" was logged
  cmds,        \* external commands executed by this invocation, in order
  zipExit,     \* exit code of the archive tool in this invocation, -1 if not run
  zipSawArchive, \* an archive existed at the target path when zip was invoked
  zipInput,    \* members of the output tree when zip was invoked
  preTree,     \* content of the output tree when createZipPackage was entered
  poQueue,     \* .po files compileTranslations has still to compile
  host,        \* results of installExtension, enableExtension, restartGnomeShell
               \* and the session type restartGnomeShell found
  zipsAtStart, \* the archives under build/ when this invocation started
  fsAtStart,   \* the project directory when this invocation started
  exits,       \* outcome of each entry of cmds: "ok", "nonzero" or "enoent"
  spinners,    \* the spinners started by this invocation, each with its status
  notes,       \* info/warning lines of interest logged by this invocation
  metaVersion, \* the fields version-name and version of metadata.json
  pub,         \* the run of `gnext publish`: position, credentials, requests, outcome
  bmp          \* the run of `gnext bump`: position, arguments, git commands, outcome

vars ==
  <<fs, zips, nbuilds, prevInstall, metaVersion, pub, bmp, pc, opts, argv, reads, probes, uuid, version, flags,
    jsDir, resourceTarget, started, finished, failedStage, errorMsg, exitCode,
    succeeded, cmds, zipExit, zipSawArchive, zipInput, preTree, poQueue, host,
    zipsAtStart, fsAtStart, exits, spinners, notes>>

\* the variables of the build command
buildState ==
  <<nbuilds, prevInstall, pc, opts, argv, reads, probes, uuid, version, flags,
    jsDir, resourceTarget, started, finished, failedStage, errorMsg, exitCode,
    succeeded, cmds, zipExit, zipSawArchive, zipInput, preTree, poQueue, host,
    zipsAtStart, fsAtStart, exits, spinners, notes>>

\* variables of the project directory
disk == <<fs, zips>>
\* variables set while inspecting
inspected ==
  <<reads, probes, uuid, version, flags, jsDir, zipsAtStart, fsAtStart>>
\* the packager's bookkeeping
pkgvars == <<zipExit, zipSawArchive, zipInput, preTree>>

NoFlags ==
  [usesTS |-> FALSE, hasTranslations |-> FALSE, hasResources |-> FALSE,
   hasSchemas |-> FALSE]

NoHost == [install |-> "none", enable |-> "none", reload |-> "none", session |-> "none"]

(***************************************************************************)
(* Initial project directories                                             *)
(***************************************************************************)
\* entries every project has, apart from the two identity files
BaseFiles(typed) ==
  IF typed
  THEN (<<"tsconfig.json">> :> "tsconfig")
       @@ (<<"src", "extension.ts">> :> "source-ts")
       @@ (<<"src", "stylesheet.css">> :> "css")
  ELSE (<<"src", "extension.js">> :> "source-js")
       @@ (<<"src", "stylesheet.css">> :> "css")

Optional(present, p, c) == IF present THEN (p :> c) ELSE <<>>

\* a project directory as the developer may have left it
Project(typed, meta, pkg, license, po, data, schemas, userFile, deps, bundler) ==
  BaseFiles(typed)
  @@ Optional(meta, <<"metadata.json">>, ExtUuid)
  @@ Optional(pkg, <<"package.json">>, PkgVersion)
  @@ Optional(license, <<"LICENSE">>, LicenseText)
  @@ [p \in {<<"po", n>> : n \in po} |-> "po-source"]
  @@ Optional(data, <<"data", "icon.svg">>, "svg")
  @@ Optional(schemas, <<"src", "schemas", "org.gschema.xml">>, "schema")
  @@ Optional(userFile # "none", <<"src", userFile>>, UserContent)
  @@ Optional(deps, <<"node_modules">>, DirMark)
  @@ Optional(bundler, <<"scripts", "esbuild.js">>, "esbuild-config")

\* the sets of translation sources a project may have in po/
Translations == {{}, {"en.po", "fr.po"}}

\* names of files a developer may keep in src/ that the packager also uses
UserFiles == {"none", "metadata.json", "LICENSE"}

\* an archive left by an earlier release of the same version
OldArchive == (ZipName(ExtUuid, PkgVersion) :> {<<(<<"old.js">>), "old">>})

\* metadata.json as the project template ships it
InitialMetaVersion == [name |-> PkgVersion, number |-> 1]

\* gnext publish has not been run
NoPublish ==
  [pc |-> "idle",
   options |-> [username |-> "", password |-> ""],
   env |-> [username |-> "", password |-> ""],
   curl |-> "unchecked", jq |-> "unchecked",
   uuid |-> "", version |-> "",
   username |-> "", password |-> "",
   requests |-> <<>>, loginExit |-> -1, loginBody |-> "", token |-> "",
   httpCode |-> "none", report |-> "none", exit |-> -1]

\* gnext bump has not been run
NoBump ==
  [pc |-> "idle", version |-> "", release |-> FALSE, repo |-> "unchecked",
   status |-> "unchecked", git |-> <<>>, report |-> "none", exit |-> -1]

\* neither gnext publish nor gnext bump has run
NoOtherCommand ==
  /\ metaVersion = InitialMetaVersion
  /\ pub = NoPublish
  /\ bmp = NoBump

\* no invocation of buildCommand has run yet
NoBuildYet ==
  /\ nbuilds = 0
  /\ prevInstall = "none"
  /\ pc = "idle"
  /\ opts = [install |-> FALSE, unsafeReload |-> FALSE, useEsbuild |-> FALSE]
  /\ argv = {}
  /\ reads = {}
  /\ probes = {}
  /\ uuid = ""
  /\ version = ""
  /\ flags = NoFlags
  /\ jsDir = ""
  /\ resourceTarget = Null
  /\ started = <<>>
  /\ finished = <<>>
  /\ failedStage = "none"
  /\ errorMsg = ""
  /\ exitCode = -1
  /\ succeeded = FALSE
  /\ cmds = <<>>
  /\ zipExit = -1
  /\ zipSawArchive = FALSE
  /\ zipInput = {}
  /\ preTree = <<>>
  /\ poQueue = <<>>
  /\ host = NoHost
  /\ zipsAtStart = <<>>
  /\ fsAtStart = <<>>
  /\ exits = <<>>
  /\ spinners = <<>>
  /\ notes = {}

Init ==
  /\ \E typed, license, data, schemas \in BOOLEAN, userFile \in UserFiles,
        po \in Translations :
       \E ident \in {"both", "no-metadata", "no-package"} :
         \E deps, bundler \in (IF typed THEN BOOLEAN ELSE {FALSE}) :
           /\ ident # "both" => po = {} /\ ~data /\ ~schemas /\ userFile = "none"
           /\ typed => userFile = "none" /\ license
           /\ userFile # "none" => po = {} /\ ~data /\ ~schemas
           /\ bundler => po = {}
           /\ fs = Project(typed, ident # "no-metadata", ident # "no-package",
                           license, po, data, schemas, userFile, deps, bundler)
  /\ zips \in {<<>>, OldArchive}
  /\ zips # <<>> => <<"LICENSE">> \in DOMAIN fs /\ <<"node_modules">> \notin DOMAIN fs
  /\ NoBuildYet
  /\ NoOtherCommand

(***************************************************************************)
(* Control flow shared by the stages                                       *)
(***************************************************************************)
\* the catch block logs the error but lets the process end normally
Throw_NoExit(stage, msg) ==
  /\ failedStage' = stage
  /\ errorMsg' = "Build failed: " \o msg
  /\ exitCode' = 0
  /\ pc' = "idle"

\* an error reaches the catch block of buildCommand: logger.error and
\* process.exit(1)
Throw(stage, msg) ==
  /\ failedStage' = stage
  /\ errorMsg' = "Build failed: " \o msg
  /\ exitCode' = 1
  /\ pc' = "idle"

NoThrow == UNCHANGED <<failedStage, errorMsg>>

\* buildCommand returns and the process ends normally
ProcessEnds ==
  /\ exitCode' = 0
  /\ pc' = "idle"

\* shell.exec: runs the tool and hands its exit code back, never raising
Exec(command) == cmds' = Append(cmds, command)

\* logger.startSpinner: a stage shows its start status
StartSpinner(stage) ==
  spinners' = Append(spinners, [stage |-> stage, status |-> "spinning"])

\* spinner.succeed / spinner.fail / spinner.warn on the spinner of the
\* running stage
Resolve(status) ==
  spinners' = [spinners EXCEPT ![Len(spinners)].status = status]

\* a stage starts its spinner and resolves it before its first await returns
StartAndResolve(stage, status) ==
  spinners' = Append(spinners, [stage |-> stage, status |-> status])

\* shell.execOrThrow: the message of the error it raises for a non-zero exit
CommandFailed(command) == "Command failed: " \o command

ExitCodes == {0, 1}

\* the exit code shell.exec reports when the executable cannot be started
SpawnFailureCode == 1

\* how an exit code handed back by shell.exec is recorded in exits
ExitKind(exit) == IF exit = 0 THEN "ok" ELSE "nonzero"

\* execOrThrow that hands every exit code back without raising
Rejects_Never(exit) == FALSE

\* shell.execOrThrow raises for this exit code
Rejects(exit) == exit # 0

\* the conditions of buildCommand that decide whether a step is entered
RunsCompile == flags.usesTS
RunsTranslations == flags.hasTranslations
RunsResources == flags.hasResources
\* the gate looks at the schemas directory again
RunsSchemas_Reprobed ==
  LET dir == <<(IF FileExists(fs, <<"tsconfig.json">>) THEN "dist" ELSE "src"), "schemas">>
  IN FileExists(fs, dir) /\ ReadDir(fs, dir) # {}
\* the schema stage gated on the resources flag
RunsSchemas_OnResources == flags.hasResources
RunsSchemas == flags.hasSchemas
\* the install tail also entered for the unsafe-reload option
InstallRequested_OrReload == opts.install \/ opts.unsafeReload
InstallRequested == opts.install
ReloadRequested == opts.unsafeReload

(***************************************************************************)
(* The command line                                                        *)
(***************************************************************************)
BuildFlags == {"--install", "--unsafe-reload", "--use-esbuild"}

\* the action of the build command: commander options -> BuildOptions
CliBuildOptions(args) ==
  [install |-> "--install" \in args,
   unsafeReload |-> "--unsafe-reload" \in args,
   useEsbuild |-> "--use-esbuild" \in args]

\* gnext build [--install] [--unsafe-reload] [--use-esbuild]; --use-esbuild
\* is read by compileTypeScript only and is tried on typed projects only
StartBuild ==
  /\ pc = "idle"
  /\ nbuilds < MaxBuilds
  /\ \E args \in SUBSET BuildFlags :
       /\ "--use-esbuild" \in args => <<"tsconfig.json">> \in DOMAIN fs
       /\ argv' = args
       /\ opts' = CliBuildOptions(args)
  /\ nbuilds' = nbuilds + 1
  /\ prevInstall' = (IF host.install = "failed" THEN "failed" ELSE "none")
  /\ pc' = "identity"
  /\ reads' = {}
  /\ probes' = {}
  /\ uuid' = ""
  /\ version' = ""
  /\ flags' = NoFlags
  /\ jsDir' = ""
  /\ resourceTarget' = Null
  /\ started' = <<"Inspect">>
  /\ finished' = <<>>
  /\ failedStage' = "none"
  /\ errorMsg' = ""
  /\ exitCode' = -1
  /\ succeeded' = FALSE
  /\ cmds' = <<>>
  /\ zipExit' = -1
  /\ zipSawArchive' = FALSE
  /\ zipInput' = {}
  /\ preTree' = <<>>
  /\ poQueue' = <<>>
  /\ host' = NoHost
  /\ zipsAtStart' = zips
  /\ fsAtStart' = fs
  /\ exits' = <<>>
  /\ spinners' = <<>>
  /\ notes' = {}
  /\ UNCHANGED <<disk, metaVersion, pub, bmp>>

(***************************************************************************)
(* Inspection: identity reads and probes                                   *)
(***************************************************************************)
\* project.readMetadata
ReadMetadata ==
  /\ pc = "identity"
  /\ "metadata" \notin reads
  /\ IF FileExists(fs, <<"metadata.json">>)
     THEN /\ reads' = reads \cup {"metadata"}
          /\ uuid' = fs[<<"metadata.json">>]
          /\ UNCHANGED <<pc, exitCode>>
          /\ NoThrow
     ELSE /\ Throw("Inspect",
                   "metadata.json not found. Are you in a GNOME extension directory?")
          /\ UNCHANGED <<reads, uuid>>
  /\ UNCHANGED <<disk, nbuilds, prevInstall, metaVersion, pub, bmp, spinners, opts, argv, probes, version, flags, jsDir, zipsAtStart, fsAtStart,
                 resourceTarget, started, finished, succeeded, cmds, exits, pkgvars,
                 poQueue, host, notes>>

\* a missing package.json yields a default version instead of an error
ReadPackageJson_DefaultVersion ==
  /\ pc = "identity"
  /\ "package" \notin reads
  /\ reads' = reads \cup {"package"}
  /\ version' = IF FileExists(fs, <<"package.json">>)
                THEN fs[<<"package.json">>]
                ELSE "0.0.0"
  /\ UNCHANGED <<pc, exitCode>>
  /\ NoThrow
  /\ UNCHANGED <<disk, nbuilds, prevInstall, metaVersion, pub, bmp, spinners, opts, argv, probes, uuid, flags, jsDir, zipsAtStart, fsAtStart,
                 resourceTarget, started, finished, succeeded, cmds, exits, pkgvars,
                 poQueue, host, notes>>

\* project.readPackageJson
ReadPackageJson ==
  /\ pc = "identity"
  /\ "package" \notin reads
  /\ IF FileExists(fs, <<"package.json">>)
     THEN /\ reads' = reads \cup {"package"}
          /\ version' = fs[<<"package.json">>]
          /\ UNCHANGED <<pc, exitCode>>
          /\ NoThrow
     ELSE /\ Throw("Inspect", "package.json not found.")
          /\ UNCHANGED <<reads, version>>
  /\ UNCHANGED <<disk, nbuilds, prevInstall, metaVersion, pub, bmp, spinners, opts, argv, probes, uuid, flags, jsDir, zipsAtStart, fsAtStart,
                 resourceTarget, started, finished, succeeded, cmds, exits, pkgvars,
                 poQueue, host, notes>>

\* the first Promise.all resolves; the four probes are issued
IdentityJoin ==
  /\ pc = "identity"
  /\ reads = {"metadata", "package"}
  /\ pc' = "probes"
  /\ UNCHANGED <<disk, nbuilds, prevInstall, metaVersion, pub, bmp, spinners, opts, argv, reads, probes, uuid, version, flags,
                 jsDir, zipsAtStart, fsAtStart, resourceTarget, started, finished, failedStage, errorMsg,
                 exitCode, succeeded, cmds, exits, pkgvars, poQueue, host, notes>>

\* project.usesTypeScript
UsesTypeScript(f) == FileExists(f, <<"tsconfig.json">>)

\* project.getJsDir
GetJsDir(f) == IF UsesTypeScript(f) THEN "dist" ELSE "src"

\* project.hasTranslations
HasTranslations(f) ==
  /\ FileExists(f, <<"po">>)
  /\ \E n \in ReadDir(f, <<"po">>) : EndsWith(n, ".po")

\* project.hasResources
HasResources(f) ==
  /\ FileExists(f, <<"data">>)
  /\ Cardinality(ReadDir(f, <<"data">>)) > 0

\* project.hasSchemas
HasSchemas(f) ==
  LET schemasDir == <<GetJsDir(f), "schemas">>
  IN /\ FileExists(f, schemasDir)
     /\ Cardinality(ReadDir(f, schemasDir)) > 0

\* one probe of the second Promise.all resolves
Probe(name, value) ==
  /\ pc = "probes"
  /\ name \notin probes
  /\ probes' = probes \cup {name}
  /\ flags' = [flags EXCEPT ![name] = value]
  /\ UNCHANGED <<disk, nbuilds, prevInstall, metaVersion, pub, bmp, spinners, pc, opts, argv, reads, uuid, version, jsDir, zipsAtStart, fsAtStart,
                 resourceTarget, started, finished, failedStage, errorMsg,
                 exitCode, succeeded, cmds, exits, pkgvars, poQueue, host, notes>>

ProbeUsesTypeScript == Probe("usesTS", UsesTypeScript(fs))
ProbeHasTranslations == Probe("hasTranslations", HasTranslations(fs))
ProbeHasResources == Probe("hasResources", HasResources(fs))
ProbeHasSchemas == Probe("hasSchemas", HasSchemas(fs))

ProbeNames == {"usesTS", "hasTranslations", "hasResources", "hasSchemas"}

\* the probes raced instead of joined: the first one to resolve continues
ProbesJoin_Race ==
  /\ pc = "probes"
  /\ probes # {}
  /\ jsDir' = IF flags.usesTS THEN "dist" ELSE "src"
  /\ finished' = Append(finished, "Inspect")
  /\ pc' = "Compile"
  /\ UNCHANGED <<disk, nbuilds, prevInstall, metaVersion, pub, bmp, spinners, opts, argv, reads, probes, uuid, version, flags,
                 zipsAtStart, fsAtStart, resourceTarget, started, failedStage, errorMsg,
                 exitCode, succeeded, cmds, exits, pkgvars, poQueue, host, notes>>

\* the second Promise.all resolves; jsDir is chosen and the first stage is next
ProbesJoin ==
  /\ pc = "probes"
  /\ probes = ProbeNames
  /\ jsDir' = IF flags.usesTS THEN "dist" ELSE "src"
  /\ finished' = Append(finished, "Inspect")
  /\ pc' = "Compile"
  /\ UNCHANGED <<disk, nbuilds, prevInstall, metaVersion, pub, bmp, spinners, opts, argv, reads, probes, uuid, version, flags,
                 zipsAtStart, fsAtStart, resourceTarget, started, failedStage, errorMsg, exitCode,
                 succeeded, cmds, exits, pkgvars, poQueue, host, notes>>

(***************************************************************************)
(* Compile stage                                                           *)
(***************************************************************************)
\* name of the JavaScript file the compiler emits for a TypeScript file
EmittedName(name) == IF name = "extension.ts" THEN "extension.js" ELSE name

\* path in dist/ that corresponds to a path in src/
DistPath(p) == <<"dist">> \o Relative(<<"src">>, p)

\* what tsc (or the bundler) writes on a zero exit: one .js per .ts source
CompilerOutput(f) ==
  LET sources == {p \in FilesUnder(f, <<"src">>) : EndsWith(p[Len(p)], ".ts")}
      emitted == {SubSeq(DistPath(p), 1, Len(p) - 1) \o <<EmittedName(p[Len(p)])>> :
                    p \in sources}
  IN [q \in (DOMAIN f) \cup emitted |-> IF q \in emitted THEN "compiled" ELSE f[q]]

\* the copy loop without the test on the file name
CopyAssets_WithSources(f) ==
  LET assets == FilesUnder(f, <<"src">>)
      copies == {DistPath(p) : p \in assets}
  IN [q \in (DOMAIN f) \cup copies |->
        IF q \in copies
        THEN f[CHOOSE p \in assets : DistPath(p) = q]
        ELSE f[q]]

\* the copy loop of compileTypeScript: every regular non-.ts file of src/
CopyAssets(f) ==
  LET assets == {p \in FilesUnder(f, <<"src">>) : ~EndsWith(p[Len(p)], ".ts")}
      copies == {DistPath(p) : p \in assets}
  IN [q \in (DOMAIN f) \cup copies |->
        IF q \in copies
        THEN f[CHOOSE p \in assets : DistPath(p) = q]
        ELSE f[q]]

\* the compiler exited zero: assets are copied and the stage succeeds
CompileSucceeds ==
  /\ fs' = CopyAssets(CompilerOutput(fs))
  /\ finished' = Append(finished, "Compile")
  /\ Resolve("succeed")
  /\ pc' = "Translate"

\* the bundler is chosen on the option alone
SelectCompiler_IgnoreConfig(f) ==
  IF opts.useEsbuild
  THEN /\ pc' = "esbuild"
       /\ UNCHANGED notes
  ELSE /\ pc' = "bunx"
       /\ UNCHANGED notes

\* the branch on options.useEsbuild and scripts/esbuild.js
SelectCompiler(f) ==
  IF opts.useEsbuild
  THEN IF FileExists(f, <<"scripts", "esbuild.js">>)
       THEN /\ pc' = "esbuild"
            /\ UNCHANGED notes
       ELSE /\ pc' = "bunx"
            /\ notes' = notes \cup {"esbuild requested but scripts/esbuild.js not found. Using tsc instead."}
  ELSE /\ pc' = "bunx"
       /\ UNCHANGED notes

\* the output directory of the previous build is kept
ClearOutput_Keep(f, dir) == f

\* "Remove old dist directory"
ClearOutput(f, dir) == IF FileExists(f, <<dir>>) THEN RemovePath(f, <<dir>>) ELSE f

\* compileTypeScript up to its first external command
CompileTypeScript ==
  /\ pc = "Compile"
  /\ RunsCompile
  /\ started' = Append(started, "Compile")
  /\ StartSpinner("Compile")
  /\ fs' = ClearOutput(fs, jsDir)
  /\ IF ~FileExists(fs, <<"node_modules">>)
     THEN /\ pc' = "bunInstall"
          /\ UNCHANGED notes
     ELSE SelectCompiler(fs)
  /\ UNCHANGED <<zips, nbuilds, prevInstall, metaVersion, pub, bmp, opts, argv, inspected, resourceTarget, finished,
                 failedStage, errorMsg, exitCode, succeeded, cmds, exits, pkgvars,
                 poQueue, host>>

SkipCompile ==
  /\ pc = "Compile"
  /\ ~RunsCompile
  /\ pc' = "Translate"
  /\ UNCHANGED <<disk, nbuilds, prevInstall, metaVersion, pub, bmp, spinners, opts, argv, inspected, resourceTarget, started,
                 finished, failedStage, errorMsg, exitCode, succeeded, cmds, exits,
                 pkgvars, poQueue, host, notes>>

\* the result of the dependency install is not looked at
BunInstall_IgnoreFailure ==
  /\ pc = "bunInstall"
  /\ Exec("bun install")
  /\ \E exit \in ExitCodes :
       /\ exits' = Append(exits, ExitKind(exit))
       /\ fs' = IF ~Rejects(exit) THEN EnsureDir(fs, <<"node_modules">>) ELSE fs
       /\ SelectCompiler(fs)
       /\ NoThrow
       /\ UNCHANGED exitCode
  /\ UNCHANGED <<zips, nbuilds, prevInstall, metaVersion, pub, bmp, spinners, opts, argv, inspected, resourceTarget, started,
                 finished, succeeded, pkgvars, poQueue, host>>

\* bun install
BunInstall ==
  /\ pc = "bunInstall"
  /\ Exec("bun install")
  /\ \E exit \in ExitCodes :
       /\ exits' = Append(exits, ExitKind(exit))
       /\ IF ~Rejects(exit)
          THEN /\ fs' = EnsureDir(fs, <<"node_modules">>)
               /\ SelectCompiler(fs)
               /\ NoThrow
               /\ UNCHANGED exitCode
          ELSE /\ Throw("Compile", CommandFailed("bun install"))
               /\ UNCHANGED <<fs, notes>>
  /\ UNCHANGED <<zips, nbuilds, prevInstall, metaVersion, pub, bmp, spinners, opts, argv, inspected, resourceTarget, started,
                 finished, succeeded, pkgvars, poQueue, host>>

\* bun ./scripts/esbuild.js
RunEsbuild ==
  /\ pc = "esbuild"
  /\ Exec("bun ./scripts/esbuild.js")
  /\ \E exit \in ExitCodes :
       /\ exits' = Append(exits, ExitKind(exit))
       /\ IF ~Rejects(exit)
          THEN /\ CompileSucceeds
               /\ NoThrow
               /\ UNCHANGED exitCode
          ELSE /\ Throw("Compile", CommandFailed("bun ./scripts/esbuild.js"))
               /\ UNCHANGED <<fs, finished, spinners>>
  /\ UNCHANGED <<zips, nbuilds, prevInstall, metaVersion, pub, bmp, opts, argv, inspected, resourceTarget, started,
                 succeeded, pkgvars, poQueue, host, notes>>

\* a failure of bunx tsc is final: no second candidate is tried
RunBunxTsc_NoFallback ==
  /\ pc = "bunx"
  /\ Exec("bunx tsc")
  /\ \E spawned \in BOOLEAN, exit \in ExitCodes :
       /\ ~spawned => exit = SpawnFailureCode
       /\ exits' = Append(exits, IF spawned THEN ExitKind(exit) ELSE "enoent")
       /\ IF ~Rejects(exit)
          THEN /\ CompileSucceeds
               /\ NoThrow
               /\ UNCHANGED exitCode
          ELSE /\ Throw("Compile", CommandFailed("bunx tsc"))
               /\ UNCHANGED <<fs, finished, spinners>>
  /\ UNCHANGED <<zips, nbuilds, prevInstall, metaVersion, pub, bmp, opts, argv, inspected, resourceTarget, started,
                 succeeded, pkgvars, poQueue, host, notes>>

\* runTscWithFallback, first candidate: bunx tsc
RunBunxTsc ==
  /\ pc = "bunx"
  /\ Exec("bunx tsc")
  /\ \E spawned \in BOOLEAN, exit \in ExitCodes :
       /\ ~spawned => exit = SpawnFailureCode
       /\ exits' = Append(exits, IF spawned THEN ExitKind(exit) ELSE "enoent")
       /\ IF ~Rejects(exit)
          THEN CompileSucceeds
          ELSE /\ pc' = "npx"
               /\ UNCHANGED <<fs, finished, spinners>>
  /\ UNCHANGED <<zips, nbuilds, prevInstall, metaVersion, pub, bmp, opts, argv, inspected, resourceTarget, started,
                 failedStage, errorMsg, exitCode, succeeded, pkgvars, poQueue,
                 host, notes>>

\* runTscWithFallback, second candidate: npx tsc
RunNpxTsc ==
  /\ pc = "npx"
  /\ Exec("npx tsc")
  /\ \E spawned \in BOOLEAN, exit \in ExitCodes :
       /\ ~spawned => exit = SpawnFailureCode
       /\ exits' = Append(exits, IF spawned THEN ExitKind(exit) ELSE "enoent")
       /\ IF ~Rejects(exit)
          THEN /\ CompileSucceeds
               /\ NoThrow
               /\ UNCHANGED exitCode
          ELSE /\ Throw("Compile",
                        "Failed to run TypeScript compiler - tried bunx and npx")
               /\ UNCHANGED <<fs, finished, spinners>>
  /\ UNCHANGED <<zips, nbuilds, prevInstall, metaVersion, pub, bmp, opts, argv, inspected, resourceTarget, started,
                 succeeded, pkgvars, poQueue, host, notes>>

(***************************************************************************)
(* Translate stage                                                         *)
(***************************************************************************)
\* an order in which fs.readdir may list the given names
Orderings(S) ==
  {q \in [1..Cardinality(S) -> S] : \A i, j \in 1..Cardinality(S) : i # j => q[i] # q[j]}

\* a missing msgfmt is an error of the stage
CompileTranslations_FatalWhenMissing ==
  /\ pc = "Translate"
  /\ RunsTranslations
  /\ started' = Append(started, "Translate")
  /\ Exec("command -v msgfmt")
  /\ \E available \in BOOLEAN :
       /\ exits' = Append(exits, IF available THEN "ok" ELSE "nonzero")
       /\ IF ~available
          THEN /\ notes' = notes \cup {"gettext (msgfmt) not installed. Skipping translations."}
               /\ Throw("Translate", "msgfmt not found")
               /\ StartAndResolve("Translate", "fail")
               /\ UNCHANGED <<poQueue, finished>>
          ELSE /\ \E order \in Orderings({n \in ReadDir(fs, <<"po">>) : EndsWith(n, ".po")}) :
                    poQueue' = order
               /\ IF \E n \in ReadDir(fs, <<"po">>) : EndsWith(n, ".po")
                  THEN /\ pc' = "msgfmt"
                       /\ StartSpinner("Translate")
                       /\ UNCHANGED finished
                  ELSE /\ pc' = "Resources"
                       /\ StartAndResolve("Translate", "succeed")
                       /\ finished' = Append(finished, "Translate")
               /\ NoThrow
               /\ UNCHANGED <<notes, exitCode>>
  /\ UNCHANGED <<disk, nbuilds, prevInstall, metaVersion, pub, bmp, opts, argv, inspected, resourceTarget,
                 succeeded, pkgvars, host>>

\* compileTranslations up to its first msgfmt invocation
CompileTranslations ==
  /\ pc = "Translate"
  /\ RunsTranslations
  /\ started' = Append(started, "Translate")
  /\ Exec("command -v msgfmt")
  /\ \E available \in BOOLEAN :
       /\ exits' = Append(exits, IF available THEN "ok" ELSE "nonzero")
       /\ IF ~available
          THEN /\ notes' = notes \cup {"gettext (msgfmt) not installed. Skipping translations."}
               /\ finished' = Append(finished, "Translate")
               /\ pc' = "Resources"
               /\ StartAndResolve("Translate", "warn")
               /\ UNCHANGED poQueue
          ELSE /\ \E order \in Orderings({n \in ReadDir(fs, <<"po">>) : EndsWith(n, ".po")}) :
                    poQueue' = order
               /\ IF \E n \in ReadDir(fs, <<"po">>) : EndsWith(n, ".po")
                  THEN /\ pc' = "msgfmt"
                       /\ StartSpinner("Translate")
                       /\ UNCHANGED finished
                  ELSE /\ pc' = "Resources"
                       /\ StartAndResolve("Translate", "succeed")
                       /\ finished' = Append(finished, "Translate")
               /\ UNCHANGED notes
  /\ UNCHANGED <<disk, nbuilds, prevInstall, metaVersion, pub, bmp, opts, argv, inspected, resourceTarget,
                 failedStage, errorMsg, exitCode, succeeded, pkgvars, host>>

SkipTranslations ==
  /\ pc = "Translate"
  /\ ~RunsTranslations
  /\ pc' = "Resources"
  /\ UNCHANGED <<disk, nbuilds, prevInstall, metaVersion, pub, bmp, spinners, opts, argv, inspected, resourceTarget, started,
                 finished, failedStage, errorMsg, exitCode, succeeded, cmds, exits,
                 pkgvars, poQueue, host, notes>>

\* the catalog directory is resolved against the project root
LocaleDir_UnderCwd(dir, lang) == <<"locale", lang, "LC_MESSAGES">>

\* path.join(cwd, jsDir, "locale", lang, "LC_MESSAGES")
LocaleDir(dir, lang) == <<dir, "locale", lang, "LC_MESSAGES">>

\* a catalog that fails to compile is skipped and the loop goes on
Msgfmt_SkipAndContinue ==
  /\ pc = "msgfmt"
  /\ poQueue # <<>>
  /\ LET poFile == Head(poQueue)
         lang == Basename(poFile)
         localeDir == LocaleDir(jsDir, lang)
         moPath == Join(localeDir, uuid \o ".mo")
     IN /\ Exec("msgfmt")
        /\ \E exit \in ExitCodes :
             /\ exits' = Append(exits, ExitKind(exit))
             /\ fs' = IF ~Rejects(exit)
                      THEN WriteFile(fs, moPath, "mo-" \o lang)
                      ELSE EnsureDir(fs, localeDir)
             /\ poQueue' = Tail(poQueue)
             /\ IF Tail(poQueue) = <<>>
                THEN /\ finished' = Append(finished, "Translate")
                     /\ Resolve("succeed")
                     /\ pc' = "Resources"
                ELSE UNCHANGED <<finished, pc, spinners>>
             /\ NoThrow
             /\ UNCHANGED exitCode
  /\ UNCHANGED <<zips, nbuilds, prevInstall, metaVersion, pub, bmp, opts, argv, inspected, resourceTarget, started,
                 succeeded, pkgvars, host, notes>>

\* one iteration of the loop over the .po files: ensureDir, then msgfmt
Msgfmt ==
  /\ pc = "msgfmt"
  /\ poQueue # <<>>
  /\ LET poFile == Head(poQueue)
         lang == Basename(poFile)
         localeDir == LocaleDir(jsDir, lang)
         moPath == Join(localeDir, uuid \o ".mo")
     IN /\ Exec("msgfmt")
        /\ \E exit \in ExitCodes :
             /\ exits' = Append(exits, ExitKind(exit))
             /\ IF ~Rejects(exit)
                THEN /\ fs' = WriteFile(fs, moPath, "mo-" \o lang)
                     /\ poQueue' = Tail(poQueue)
                     /\ IF Tail(poQueue) = <<>>
                        THEN /\ finished' = Append(finished, "Translate")
                             /\ Resolve("succeed")
                             /\ pc' = "Resources"
                        ELSE UNCHANGED <<finished, pc, spinners>>
                     /\ NoThrow
                     /\ UNCHANGED exitCode
                ELSE /\ fs' = EnsureDir(fs, localeDir)
                     /\ Throw("Translate", CommandFailed("msgfmt"))
                     /\ UNCHANGED <<poQueue, finished, spinners>>
  /\ UNCHANGED <<zips, nbuilds, prevInstall, metaVersion, pub, bmp, opts, argv, inspected, resourceTarget, started,
                 succeeded, pkgvars, host, notes>>

(***************************************************************************)
(* Resources stage                                                         *)
(***************************************************************************)
\* fs.readdir(d, { recursive: true }): every file and every directory below
\* d, by its path relative to d
ReadDirRecursive(f, d) ==
  UNION {{SubSeq(q, Len(d) + 1, k) : k \in (Len(d) + 1)..Len(q)} :
           q \in {r \in DOMAIN f : IsPrefix(d, r) /\ r # d}}

\* every entry of a listing is taken for a regular file
IsFile_Always(f, p) == TRUE

\* fs.statSync(p).isFile()
IsFile(f, p) == p \in DOMAIN f /\ f[p] # DirMark

\* a relative path as readdir reports it
RECURSIVE PathString(_)
PathString(p) == IF Len(p) = 1 THEN p[1] ELSE p[1] \o "/" \o PathString(Tail(p))

\* the line of the manifest for one file
FileEntry(file) == "<file>" \o PathString(file) \o "</file>"

\* files.filter(isFile).map(<file> line).join: the lines of the regular files
\* of the listing, in the order of the listing
RECURSIVE FileEntries(_, _, _)
FileEntries(f, d, files) ==
  IF files = <<>> THEN ""
  ELSE (IF IsFile(f, d \o Head(files)) THEN FileEntry(Head(files)) ELSE "")
       \o FileEntries(f, d, Tail(files))

\* xmlContent
XmlContent(fileEntries) ==
  "<gresources><gresource>" \o fileEntries \o "</gresource></gresources>"

\* a missing resource compiler is reported and the stage is skipped
CompileResources_SkipWhenMissing ==
  /\ pc = "Resources"
  /\ RunsResources
  /\ started' = Append(started, "Resources")
  /\ Exec("command -v glib-compile-resources")
  /\ \E available \in BOOLEAN :
       /\ exits' = Append(exits, IF available THEN "ok" ELSE "nonzero")
       /\ IF ~available
          THEN /\ pc' = "Schemas"
               /\ StartAndResolve("Resources", "warn")
               /\ UNCHANGED fs
          ELSE /\ \E files \in Orderings(ReadDirRecursive(fs, <<"data">>)) :
                    fs' = WriteFile(EnsureDir(fs, <<"build">>),
                                    <<"build", uuid \o ".gresource.xml">>,
                                    XmlContent(FileEntries(fs, <<"data">>, files)))
               /\ pc' = "glibResources"
               /\ StartSpinner("Resources")
       /\ NoThrow
       /\ UNCHANGED exitCode
  /\ UNCHANGED <<zips, nbuilds, prevInstall, metaVersion, pub, bmp, opts, argv, inspected, resourceTarget, finished,
                 succeeded, pkgvars, poQueue, host, notes>>

\* compileResources up to the resource compiler: tool check and manifest
CompileResources ==
  /\ pc = "Resources"
  /\ RunsResources
  /\ started' = Append(started, "Resources")
  /\ Exec("command -v glib-compile-resources")
  /\ \E available \in BOOLEAN :
       /\ exits' = Append(exits, IF available THEN "ok" ELSE "nonzero")
       /\ IF ~available
          THEN /\ Throw("Resources", "glib-compile-resources not found")
               /\ StartAndResolve("Resources", "fail")
               /\ UNCHANGED fs
          ELSE /\ \E files \in Orderings(ReadDirRecursive(fs, <<"data">>)) :
                    fs' = WriteFile(EnsureDir(fs, <<"build">>),
                                    <<"build", uuid \o ".gresource.xml">>,
                                    XmlContent(FileEntries(fs, <<"data">>, files)))
               /\ pc' = "glibResources"
               /\ StartSpinner("Resources")
               /\ NoThrow
               /\ UNCHANGED exitCode
  /\ UNCHANGED <<zips, nbuilds, prevInstall, metaVersion, pub, bmp, opts, argv, inspected, resourceTarget, finished,
                 succeeded, pkgvars, poQueue, host, notes>>

SkipResources ==
  /\ pc = "Resources"
  /\ ~RunsResources
  /\ pc' = "Schemas"
  /\ UNCHANGED <<disk, nbuilds, prevInstall, metaVersion, pub, bmp, spinners, opts, argv, inspected, resourceTarget, started,
                 finished, failedStage, errorMsg, exitCode, succeeded, cmds, exits,
                 pkgvars, poQueue, host, notes>>

\* glib-compile-resources --generate ... --target=build/<uuid>.gresource
GlibCompileResources ==
  /\ pc = "glibResources"
  /\ Exec("glib-compile-resources")
  /\ \E exit \in ExitCodes :
       /\ exits' = Append(exits, ExitKind(exit))
       /\ IF ~Rejects(exit)
          THEN /\ fs' = WriteFile(fs, <<"build", GresourceName(uuid)>>, "blob")
               /\ resourceTarget' = <<"build", GresourceName(uuid)>>
               /\ finished' = Append(finished, "Resources")
               /\ Resolve("succeed")
               /\ pc' = "Schemas"
               /\ NoThrow
               /\ UNCHANGED exitCode
          ELSE /\ Throw("Resources", CommandFailed("glib-compile-resources"))
               /\ UNCHANGED <<fs, resourceTarget, finished, spinners>>
  /\ UNCHANGED <<zips, nbuilds, prevInstall, metaVersion, pub, bmp, opts, argv, inspected, started, succeeded,
                 pkgvars, poQueue, host, notes>>

(***************************************************************************)
(* Schemas stage                                                           *)
(***************************************************************************)
\* compileSchemas up to the schema compiler: the tool check
CompileSchemas ==
  /\ pc = "Schemas"
  /\ RunsSchemas
  /\ started' = Append(started, "Schemas")
  /\ Exec("command -v glib-compile-schemas")
  /\ \E available \in BOOLEAN :
       /\ exits' = Append(exits, IF available THEN "ok" ELSE "nonzero")
       /\ IF ~available
          THEN /\ Throw("Schemas", "glib-compile-schemas not found")
               /\ StartAndResolve("Schemas", "fail")
          ELSE /\ pc' = "glibSchemas"
               /\ StartSpinner("Schemas")
               /\ NoThrow
               /\ UNCHANGED exitCode
  /\ UNCHANGED <<disk, nbuilds, prevInstall, metaVersion, pub, bmp, opts, argv, inspected, resourceTarget, finished,
                 succeeded, pkgvars, poQueue, host, notes>>

SkipSchemas ==
  /\ pc = "Schemas"
  /\ ~RunsSchemas
  /\ pc' = "Package"
  /\ UNCHANGED <<disk, nbuilds, prevInstall, metaVersion, pub, bmp, spinners, opts, argv, inspected, resourceTarget, started,
                 finished, failedStage, errorMsg, exitCode, succeeded, cmds, exits,
                 pkgvars, poQueue, host, notes>>

\* the schema directory named without the output directory of the build
SchemasDir_HardCoded(dir) == <<"src", "schemas">>

\* path.join(cwd, jsDir, "schemas")
SchemasDir(dir) == <<dir, "schemas">>

\* glib-compile-schemas <jsDir>/schemas
GlibCompileSchemas ==
  /\ pc = "glibSchemas"
  /\ Exec("glib-compile-schemas")
  /\ \E exit \in (IF FileExists(fs, SchemasDir(jsDir)) THEN ExitCodes ELSE {1}) :
       /\ exits' = Append(exits, ExitKind(exit))
       /\ IF ~Rejects(exit)
          THEN /\ fs' = WriteFile(fs, Join(SchemasDir(jsDir), "gschemas.compiled"),
                                  "schemas-bin")
               /\ finished' = Append(finished, "Schemas")
               /\ Resolve("succeed")
               /\ pc' = "Package"
               /\ NoThrow
               /\ UNCHANGED exitCode
          ELSE /\ Throw("Schemas", CommandFailed("glib-compile-schemas"))
               /\ UNCHANGED <<fs, finished, spinners>>
  /\ UNCHANGED <<zips, nbuilds, prevInstall, metaVersion, pub, bmp, opts, argv, inspected, resourceTarget, started,
                 succeeded, pkgvars, poQueue, host, notes>>

(***************************************************************************)
(* Packager                                                                *)
(***************************************************************************)
\* the entries of the filesystem below directory d
Tree(f, d) == [p \in {q \in DOMAIN f : IsPrefix(<<d>>, q) /\ q # <<d>>} |-> f[p]]

\* zip is run from the project root with the output directory as argument
TreeMembers_FromCwd(f, d) == {<<p, f[p]>> : p \in DOMAIN Tree(f, d)}

\* what `zip -qr <archive> .` run inside directory d puts into the archive
TreeMembers(f, d) == {<<Relative(<<d>>, p), f[p]>> : p \in DOMAIN Tree(f, d)}

\* zip adds to an existing archive: members of the same path are replaced,
\* all other members of the old archive stay
ZipInto(old, members) ==
  members \cup {m \in old : ~\E n \in members : n[1] = m[1]}

\* the archive tool exits zero: the archive at name now holds the members
ZipWrite(z, name, members) ==
  [n \in (DOMAIN z) \cup {name} |->
     IF n = name
     THEN (IF name \in DOMAIN z THEN ZipInto(z[name], members) ELSE members)
     ELSE z[n]]

\* the existing archive is left in place
RemoveExistingZip_Kept(z, name) == z

\* "Remove existing zip"
RemoveExistingZip(z, name) ==
  IF name \in DOMAIN z THEN [n \in (DOMAIN z) \ {name} |-> z[n]] ELSE z

\* the resource blob is not staged
StageFiles_NoBlob(f, dir, id, blob) ==
  LET f2 == CopyFile(f, <<"metadata.json">>, <<dir, "metadata.json">>)
      f3 == IF FileExists(f2, <<"LICENSE">>)
            THEN CopyFile(f2, <<"LICENSE">>, <<dir, "LICENSE">>)
            ELSE f2
  IN f3

\* package.json is staged next to metadata.json
StageFiles_WithPackageJson(f, dir, id, blob) ==
  LET f1 == IF blob # Null THEN CopyFile(f, blob, <<dir, GresourceName(id)>>) ELSE f
      f2 == CopyFile(f1, <<"metadata.json">>, <<dir, "metadata.json">>)
      f3 == CopyFile(f2, <<"package.json">>, <<dir, "package.json">>)
      f4 == IF FileExists(f3, <<"LICENSE">>)
            THEN CopyFile(f3, <<"LICENSE">>, <<dir, "LICENSE">>)
            ELSE f3
  IN f4

\* "Copy resource to jsDir if it exists", "Copy metadata.json and LICENSE to jsDir"
StageFiles(f, dir, id, blob) ==
  LET f1 == IF blob # Null THEN CopyFile(f, blob, <<dir, GresourceName(id)>>) ELSE f
      f2 == CopyFile(f1, <<"metadata.json">>, <<dir, "metadata.json">>)
      f3 == IF FileExists(f2, <<"LICENSE">>)
            THEN CopyFile(f2, <<"LICENSE">>, <<dir, "LICENSE">>)
            ELSE f2
  IN f3

\* the staged copies are left in the output tree
CleanUp_None(f, dir, id, blob) == f

\* "Clean up temporary files"
CleanUp(f, dir, id, blob) ==
  LET f1 == IF blob # Null THEN RemovePath(f, <<dir, GresourceName(id)>>) ELSE f
      f2 == RemovePath(f1, <<dir, "metadata.json">>)
      f3 == IF FileExists(f2, <<dir, "LICENSE">>)
            THEN RemovePath(f2, <<dir, "LICENSE">>)
            ELSE f2
  IN f3

\* fs.copy rejects when its source does not exist
CopySourcesExist(f, blob) ==
  /\ blob # Null => blob \in DOMAIN f
  /\ <<"metadata.json">> \in DOMAIN f

\* createZipPackage up to the archive tool
CreateZipPackage ==
  /\ pc = "Package"
  /\ started' = Append(started, "Package")
  /\ StartSpinner("Package")
  /\ preTree' = Tree(fs, jsDir)
  /\ zips' = RemoveExistingZip(zips, ZipName(uuid, version))
  /\ IF CopySourcesExist(fs, resourceTarget)
     THEN /\ fs' = StageFiles(EnsureDir(fs, <<"build">>), jsDir, uuid, resourceTarget)
          /\ pc' = "zip"
          /\ NoThrow
          /\ UNCHANGED exitCode
     ELSE /\ fs' = EnsureDir(fs, <<"build">>)
          /\ Throw("Package", "ENOENT: no such file or directory")
  /\ UNCHANGED <<nbuilds, prevInstall, metaVersion, pub, bmp, opts, argv, inspected, resourceTarget, finished,
                 succeeded, cmds, exits, zipExit, zipSawArchive, zipInput, poQueue,
                 host, notes>>

\* zip -qr ../build/<name> . inside the output tree, then the cleanup and the
\* success report of buildCommand
Zip ==
  /\ pc = "zip"
  /\ Exec("zip")
  /\ zipSawArchive' = (ZipName(uuid, version) \in DOMAIN zips)
  /\ zipInput' = TreeMembers(fs, jsDir)
  /\ \E exit \in ExitCodes :
       /\ zipExit' = exit
       /\ exits' = Append(exits, ExitKind(exit))
       /\ IF ~Rejects(exit)
          THEN /\ zips' = ZipWrite(zips, ZipName(uuid, version), TreeMembers(fs, jsDir))
               /\ fs' = CleanUp(fs, jsDir, uuid, resourceTarget)
               /\ finished' = Append(finished, "Package")
               /\ succeeded' = TRUE
               /\ Resolve("succeed")
               /\ pc' = "Install"
               /\ NoThrow
               /\ UNCHANGED exitCode
          ELSE /\ Throw("Package", CommandFailed("zip"))
               /\ UNCHANGED <<fs, zips, finished, succeeded, spinners>>
  /\ UNCHANGED <<nbuilds, prevInstall, metaVersion, pub, bmp, opts, argv, inspected, resourceTarget, started,
                 preTree, poQueue, host, notes>>

(***************************************************************************)
(* Install tail                                                            *)
(***************************************************************************)
\* a failed install command raises like a failed stage command
InstallExtension_Raises ==
  /\ pc = "Install"
  /\ InstallRequested
  /\ started' = Append(started, "Install")
  /\ Exec("gnome-extensions install")
  /\ \E exit \in ExitCodes :
       /\ exits' = Append(exits, ExitKind(exit))
       /\ IF exit = 0
          THEN /\ host' = [host EXCEPT !.install = "ok"]
               /\ finished' = Append(finished, "Install")
               /\ pc' = "Enable"
               /\ NoThrow
               /\ UNCHANGED exitCode
          ELSE /\ host' = [host EXCEPT !.install = "failed"]
               /\ Throw("Install", CommandFailed("gnome-extensions install"))
               /\ UNCHANGED finished
  /\ UNCHANGED <<disk, nbuilds, prevInstall, metaVersion, pub, bmp, spinners, opts, argv, inspected, resourceTarget,
                 succeeded, pkgvars, poQueue, notes>>

\* gnome.installExtension and the branch on its result
InstallExtension ==
  /\ pc = "Install"
  /\ InstallRequested
  /\ started' = Append(started, "Install")
  /\ finished' = Append(finished, "Install")
  /\ Exec("gnome-extensions install")
  /\ \E exit \in ExitCodes :
       /\ exits' = Append(exits, ExitKind(exit))
       /\ IF exit = 0
          THEN /\ host' = [host EXCEPT !.install = "ok"]
               /\ pc' = "Enable"
               /\ UNCHANGED exitCode
          ELSE /\ host' = [host EXCEPT !.install = "failed"]
               /\ ProcessEnds
  /\ UNCHANGED <<disk, nbuilds, prevInstall, metaVersion, pub, bmp, spinners, opts, argv, inspected, resourceTarget,
                 failedStage, errorMsg, succeeded, pkgvars, poQueue, notes>>

\* options.install is not set: buildCommand returns
SkipInstall ==
  /\ pc = "Install"
  /\ ~InstallRequested
  /\ ProcessEnds
  /\ UNCHANGED <<disk, nbuilds, prevInstall, metaVersion, pub, bmp, spinners, opts, argv, inspected, resourceTarget, started,
                 finished, failedStage, errorMsg, succeeded, cmds, exits, pkgvars,
                 poQueue, host, notes>>

\* gnome.enableExtension and the branch on options.unsafeReload
EnableExtension ==
  /\ pc = "Enable"
  /\ started' = Append(started, "Enable")
  /\ finished' = Append(finished, "Enable")
  /\ Exec("gnome-extensions enable")
  /\ \E exit \in ExitCodes :
       /\ exits' = Append(exits, ExitKind(exit))
       /\ host' = [host EXCEPT !.enable = IF exit = 0 THEN "ok" ELSE "failed"]
  /\ IF ReloadRequested
     THEN /\ pc' = "Reload"
          /\ UNCHANGED <<exitCode, notes>>
     ELSE /\ notes' = notes \cup {"Log out and log back in to apply changes."}
          /\ ProcessEnds
  /\ UNCHANGED <<disk, nbuilds, prevInstall, metaVersion, pub, bmp, spinners, opts, argv, inspected, resourceTarget,
                 failedStage, errorMsg, succeeded, pkgvars, poQueue>>

\* XDG_SESSION_TYPE as isWayland reads it
SessionType(wayland) == IF wayland THEN "wayland" ELSE "x11"

\* the restart commands are tried whatever the session type is
RestartGnomeShell_NoSessionCheck ==
  /\ pc = "Reload"
  /\ started' = Append(started, "Reload")
  /\ finished' = Append(finished, "Reload")
  /\ \E wayland \in BOOLEAN, gdbus \in BOOLEAN, killall \in ExitCodes :
       IF gdbus /\ ~wayland
       THEN /\ host' = [host EXCEPT !.reload = "ok", !.session = SessionType(wayland)]
            /\ cmds' = Append(cmds, "gdbus call")
            /\ exits' = Append(exits, "ok")
       ELSE /\ host' = [host EXCEPT !.reload = IF killall = 0 THEN "ok" ELSE "failed",
                                    !.session = SessionType(wayland)]
            /\ cmds' = cmds \o <<"gdbus call", "killall">>
            /\ exits' = exits \o <<"nonzero", ExitKind(killall)>>
  /\ ProcessEnds
  /\ UNCHANGED <<disk, nbuilds, prevInstall, metaVersion, pub, bmp, spinners, opts, argv, inspected, resourceTarget,
                 failedStage, errorMsg, succeeded, pkgvars, poQueue, notes>>

\* gnome.restartGnomeShell
RestartGnomeShell ==
  /\ pc = "Reload"
  /\ started' = Append(started, "Reload")
  /\ finished' = Append(finished, "Reload")
  /\ \E wayland \in BOOLEAN, gdbus \in BOOLEAN, killall \in ExitCodes :
       IF wayland
       THEN /\ host' = [host EXCEPT !.reload = "refused", !.session = SessionType(wayland)]
            /\ UNCHANGED <<cmds, exits>>
       ELSE IF gdbus
            THEN /\ host' = [host EXCEPT !.reload = "ok", !.session = SessionType(wayland)]
                 /\ cmds' = Append(cmds, "gdbus call")
                 /\ exits' = Append(exits, "ok")
            ELSE /\ host' = [host EXCEPT !.reload = IF killall = 0 THEN "ok" ELSE "failed",
                                         !.session = SessionType(wayland)]
                 /\ cmds' = cmds \o <<"gdbus call", "killall">>
                 /\ exits' = exits \o <<"nonzero", ExitKind(killall)>>
  /\ ProcessEnds
  /\ UNCHANGED <<disk, nbuilds, prevInstall, metaVersion, pub, bmp, spinners, opts, argv, inspected, resourceTarget,
                 failedStage, errorMsg, succeeded, pkgvars, poQueue, notes>>

(***************************************************************************)
(* Specification                                                           *)
(***************************************************************************)
Next ==
  \/ StartBuild
  \/ ReadMetadata
  \/ ReadPackageJson
  \/ IdentityJoin
  \/ ProbeUsesTypeScript
  \/ ProbeHasTranslations
  \/ ProbeHasResources
  \/ ProbeHasSchemas
  \/ ProbesJoin
  \/ CompileTypeScript
  \/ SkipCompile
  \/ BunInstall
  \/ RunEsbuild
  \/ RunBunxTsc
  \/ RunNpxTsc
  \/ CompileTranslations
  \/ SkipTranslations
  \/ Msgfmt
  \/ CompileResources
  \/ SkipResources
  \/ GlibCompileResources
  \/ CompileSchemas
  \/ SkipSchemas
  \/ GlibCompileSchemas
  \/ CreateZipPackage
  \/ Zip
  \/ InstallExtension
  \/ SkipInstall
  \/ EnableExtension
  \/ RestartGnomeShell

Spec == Init /\ [][Next]_vars

(***************************************************************************)
(* The probes on directories of every shape                                *)
(***************************************************************************)
\* what a probed directory may hold: nothing at all (it does not exist), no
\* entry, one empty subdirectory, one file the stage has no use for, or one
\* file of the kind the stage works on
DirShapes == {"absent", "empty", "subdir", "other", "relevant"}

ShapedDir(dir, shape, relevantName) ==
  CASE shape = "absent" -> <<>>
    [] shape = "empty" -> (dir :> DirMark)
    [] shape = "subdir" -> (Join(dir, "sub") :> DirMark)
    [] shape = "other" -> (Join(dir, "README") :> "text")
    [] shape = "relevant" -> (Join(dir, relevantName) :> "content")

\* a project whose po/, data/ and <jsDir>/schemas have the given shapes
ShapedProject(typed, po, data, schemas) ==
  BaseFiles(typed)
  @@ (<<"metadata.json">> :> ExtUuid)
  @@ (<<"package.json">> :> PkgVersion)
  @@ ShapedDir(<<"po">>, po, "en.po")
  @@ ShapedDir(<<"data">>, data, "icon.svg")
  @@ ShapedDir(<<(IF typed THEN "dist" ELSE "src"), "schemas">>, schemas,
               "org.gschema.xml")

InitProbes ==
  /\ \E typed \in BOOLEAN, po, data, schemas \in DirShapes :
       fs = ShapedProject(typed, po, data, schemas)
  /\ zips = <<>>
  /\ NoBuildYet
  /\ NoOtherCommand

\* the inspection part of buildCommand
Inspection ==
  \/ StartBuild
  \/ ReadMetadata
  \/ ReadPackageJson
  \/ IdentityJoin
  \/ ProbeUsesTypeScript
  \/ ProbeHasTranslations
  \/ ProbeHasResources
  \/ ProbeHasSchemas
  \/ ProbesJoin

SpecProbes == InitProbes /\ [][Inspection]_vars

(***************************************************************************)
(* Builds with changes to the project in between                           *)
(***************************************************************************)
\* what the developer may delete between two builds: one translation source
\* or the resources directory
RemovableSources == {<<"po", "fr.po">>, <<"data">>}

\* between two invocations the developer deletes a translation source or the
\* resources directory; what earlier builds wrote stays as it is
DeveloperRemoves ==
  /\ pc = "idle"
  /\ nbuilds > 0
  /\ nbuilds < MaxBuilds
  /\ \E p \in RemovableSources :
       /\ FileExists(fs, p)
       /\ fs' = RemovePath(fs, p)
  /\ UNCHANGED <<zips, nbuilds, prevInstall, metaVersion, pub, bmp, spinners, pc, opts, argv, inspected, resourceTarget,
                 started, finished, failedStage, errorMsg, exitCode, succeeded, cmds,
                 exits, pkgvars, poQueue, host, notes>>

NextRebuild == Next \/ DeveloperRemoves

SpecRebuild == Init /\ [][NextRebuild]_vars

(***************************************************************************)
(* The Resources stage on resource directories of every shape              *)
(***************************************************************************)
\* an untyped project whose data/ holds a file, a file in a subdirectory and
\* an empty subdirectory, each or not
ResourceProject(icon, nested, emptyDir) ==
  BaseFiles(FALSE)
  @@ (<<"metadata.json">> :> ExtUuid)
  @@ (<<"package.json">> :> PkgVersion)
  @@ Optional(icon, <<"data", "icon.svg">>, "svg")
  @@ Optional(nested, <<"data", "ui", "prefs.ui">>, "ui")
  @@ Optional(emptyDir, <<"data", "cache">>, DirMark)

InitResources ==
  /\ \E icon, nested, emptyDir \in BOOLEAN : fs = ResourceProject(icon, nested, emptyDir)
  /\ zips = <<>>
  /\ NoBuildYet
  /\ NoOtherCommand

\* buildCommand up to the end of the Resources stage
UpToResources ==
  \/ Inspection
  \/ SkipCompile
  \/ SkipTranslations
  \/ CompileResources
  \/ SkipResources
  \/ GlibCompileResources

SpecResources == InitResources /\ [][UpToResources]_vars

(***************************************************************************)
(* gnext publish                                                           *)
(***************************************************************************)
Usernames == {"", "dev"}
Passwords == {"", "secret"}

\* what the login request may print: nothing, a token, an empty token, an
\* error, or something that is not the API's answer
LoginBodies ==
  {"", "{'token': 'abc'}", "{'token': ''}", "{'error': 'denied'}", "<html>"}

\* authResult.stdout.match(/"token":\s*"([^"]+)"/): the token, "" for no match
TokenMatch(stdout) ==
  CASE stdout = "{'token': 'abc'}" -> "abc"
    [] OTHER -> ""

\* uploadResult.stdout.trim().split("\n"): the lines the upload may print,
\* with curl's -w "\n%{http_code}" last when curl ran
UploadOutputs ==
  {<<"">>, <<"201">>, <<"{}", "201">>, <<"{'detail': 'exists'}", "400">>,
   <<"000">>, <<"201", "500">>}

\* lines[lines.length - 1]
LastLine(lines) == lines[Len(lines)]

\* options.username || process.env.GNOME_USERNAME, and the same for the
\* password
Credential(option, envValue) == IF option # "" THEN option ELSE envValue

\* process.exit(1) within publishCommand
PublishFails(p) == [p EXCEPT !.pc = "done", !.exit = 1]

PublishFrame == UNCHANGED <<disk, buildState, metaVersion, bmp>>

\* gnext publish [-u <username>] [-p <password>]
StartPublish ==
  /\ pc = "idle"
  /\ pub.pc = "idle"
  /\ \E ou, eu \in Usernames, op, ep \in Passwords :
       pub' = [pub EXCEPT !.pc = "curl",
                          !.options = [username |-> ou, password |-> op],
                          !.env = [username |-> eu, password |-> ep]]
  /\ PublishFrame

\* "Check for required tools": curl
PublishCheckCurl ==
  /\ pub.pc = "curl"
  /\ \E available \in BOOLEAN :
       pub' = IF available
              THEN [pub EXCEPT !.curl = "found", !.pc = "jq"]
              ELSE PublishFails([pub EXCEPT !.curl = "missing"])
  /\ PublishFrame

\* "Check for required tools": jq
PublishCheckJq ==
  /\ pub.pc = "jq"
  /\ \E available \in BOOLEAN :
       pub' = IF available
              THEN [pub EXCEPT !.jq = "found", !.pc = "identity"]
              ELSE PublishFails([pub EXCEPT !.jq = "missing"])
  /\ PublishFrame

\* readMetadata, then readPackageJson; either raises when its file is
\* missing and the catch block exits with 1
PublishReadIdentity ==
  /\ pub.pc = "identity"
  /\ pub' = IF FileExists(fs, <<"metadata.json">>) /\ FileExists(fs, <<"package.json">>)
            THEN [pub EXCEPT !.uuid = fs[<<"metadata.json">>],
                             !.version = fs[<<"package.json">>],
                             !.pc = "archive"]
            ELSE PublishFails(pub)
  /\ PublishFrame

\* "Check if zip file exists"
PublishCheckArchive ==
  /\ pub.pc = "archive"
  /\ pub' = IF ZipName(pub.uuid, pub.version) \in DOMAIN zips
            THEN [pub EXCEPT !.pc = "credentials"]
            ELSE PublishFails(pub)
  /\ PublishFrame

\* one of the two credentials is enough to go on
PublishGetCredentials_Either ==
  /\ pub.pc = "credentials"
  /\ LET username == Credential(pub.options.username, pub.env.username)
         password == Credential(pub.options.password, pub.env.password)
         known == [pub EXCEPT !.username = username, !.password = password]
     IN pub' = IF username = "" /\ password = ""
               THEN PublishFails(known)
               ELSE [known EXCEPT !.pc = "login"]
  /\ PublishFrame

\* "Get credentials"
PublishGetCredentials ==
  /\ pub.pc = "credentials"
  /\ LET username == Credential(pub.options.username, pub.env.username)
         password == Credential(pub.options.password, pub.env.password)
         known == [pub EXCEPT !.username = username, !.password = password]
     IN pub' = IF username = "" \/ password = ""
               THEN PublishFails(known)
               ELSE [known EXCEPT !.pc = "login"]
  /\ PublishFrame

\* "Authenticate": the login request and the search for the token
PublishLogin ==
  /\ pub.pc = "login"
  /\ \E exit \in ExitCodes, stdout \in LoginBodies :
       LET sent == [pub EXCEPT !.requests = Append(pub.requests, "login"),
                               !.loginExit = exit, !.loginBody = stdout]
       IN pub' = IF exit # 0 \/ stdout = "" \/ TokenMatch(stdout) = ""
                 THEN PublishFails(sent)
                 ELSE [sent EXCEPT !.token = TokenMatch(stdout), !.pc = "upload"]
  /\ PublishFrame

\* "Upload extension": the upload request and the test of the HTTP code
PublishUpload ==
  /\ pub.pc = "upload"
  /\ \E lines \in UploadOutputs :
       LET sent == [pub EXCEPT !.requests = Append(pub.requests, "upload"),
                               !.httpCode = LastLine(lines)]
       IN pub' = IF LastLine(lines) = "201"
                 THEN [sent EXCEPT !.report = "success", !.pc = "done", !.exit = 0]
                 ELSE PublishFails(sent)
  /\ PublishFrame

\* a project with or without its identity files, with or without an archive
\* of its current version
InitPublish ==
  /\ \E meta, pkg \in BOOLEAN :
       fs = Project(FALSE, meta, pkg, TRUE, {}, FALSE, FALSE, "none", FALSE, FALSE)
  /\ zips \in {<<>>, OldArchive}
  /\ NoBuildYet
  /\ NoOtherCommand

NextPublish ==
  \/ StartPublish
  \/ PublishCheckCurl
  \/ PublishCheckJq
  \/ PublishReadIdentity
  \/ PublishCheckArchive
  \/ PublishGetCredentials
  \/ PublishLogin
  \/ PublishUpload

SpecPublish == InitPublish /\ [][NextPublish]_vars

(***************************************************************************)
(* gnext bump                                                              *)
(***************************************************************************)
\* the version arguments tried
BumpVersions ==
  {"1.2.0", "10.0.3", "1.2", "v1.2.0", "1.2.0-beta", "1.2.x", "1.2.0.4", ".2.0", ""}

\* the characters of a version argument
Chars(v) ==
  CASE v = "1.2.0" -> <<"1", ".", "2", ".", "0">>
    [] v = "10.0.3" -> <<"1", "0", ".", "0", ".", "3">>
    [] v = "1.2" -> <<"1", ".", "2">>
    [] v = "v1.2.0" -> <<"v", "1", ".", "2", ".", "0">>
    [] v = "1.2.0-beta" -> <<"1", ".", "2", ".", "0", "-", "b", "e", "t", "a">>
    [] v = "1.2.x" -> <<"1", ".", "2", ".", "x">>
    [] v = "1.2.0.4" -> <<"1", ".", "2", ".", "0", ".", "4">>
    [] v = ".2.0" -> <<".", "2", ".", "0">>
    [] v = "" -> <<>>

Digits == {"0", "1", "2", "3", "4", "5", "6", "7", "8", "9"}

\* a version is accepted when it starts like MAJOR.MINOR.PATCH
ValidVersion_Prefix(v) ==
  LET cs == Chars(v)
  IN \E i, j \in 1..Len(cs) :
       /\ 1 < i /\ i + 1 < j /\ j < Len(cs)
       /\ cs[i] = "." /\ cs[j] = "."
       /\ \A k \in 1..(j + 1) : k \notin {i, j} => cs[k] \in Digits

\* /^\d+\.\d+\.\d+$/.test(version)
ValidVersion(v) ==
  LET cs == Chars(v)
  IN \E i, j \in 1..Len(cs) :
       /\ 1 < i /\ i + 1 < j /\ j < Len(cs)
       /\ cs[i] = "." /\ cs[j] = "."
       /\ \A k \in 1..Len(cs) : k \notin {i, j} => cs[k] \in Digits

\* the git commands of createRelease after the version bump, in their order
ReleaseSteps == <<"add", "commit", "push", "tag", "push tag">>

\* process.exit(1) within bumpCommand
BumpFails(b) == [b EXCEPT !.pc = "done", !.exit = 1]

BumpFrame == UNCHANGED <<zips, buildState, pub>>

\* gnext bump <version> [--release]
StartBump ==
  /\ pc = "idle"
  /\ bmp.pc = "idle"
  /\ \E v \in BumpVersions, release \in BOOLEAN :
       bmp' = [bmp EXCEPT !.pc = "validate", !.version = v, !.release = release]
  /\ BumpFrame
  /\ UNCHANGED <<fs, metaVersion>>

\* "Validate version format" and the branch on options.release
BumpValidate ==
  /\ bmp.pc = "validate"
  /\ bmp' = IF ~ValidVersion(bmp.version)
            THEN BumpFails(bmp)
            ELSE [bmp EXCEPT !.pc = IF bmp.release THEN "repo" ELSE "bump"]
  /\ BumpFrame
  /\ UNCHANGED <<fs, metaVersion>>

\* "Check if we're in a git repository"
BumpCheckRepo ==
  /\ bmp.pc = "repo"
  /\ \E inRepo \in BOOLEAN :
       bmp' = IF inRepo
              THEN [bmp EXCEPT !.repo = "yes", !.pc = "status"]
              ELSE BumpFails([bmp EXCEPT !.repo = "no"])
  /\ BumpFrame
  /\ UNCHANGED <<fs, metaVersion>>

\* "Check if there are uncommitted changes": git status --porcelain prints
\* nothing, prints files, or fails
BumpCheckStatus ==
  /\ bmp.pc = "status"
  /\ \E status \in {"clean", "dirty", "error"} :
       bmp' = IF status = "clean"
              THEN [bmp EXCEPT !.status = status, !.pc = "bump"]
              ELSE BumpFails([bmp EXCEPT !.status = status])
  /\ BumpFrame
  /\ UNCHANGED <<fs, metaVersion>>

\* bumpVersion: both files are read, then both are written
BumpVersion ==
  /\ bmp.pc = "bump"
  /\ IF FileExists(fs, <<"package.json">>) /\ FileExists(fs, <<"metadata.json">>)
     THEN /\ fs' = WriteFile(fs, <<"package.json">>, bmp.version)
          /\ metaVersion' = [name |-> bmp.version, number |-> metaVersion.number + 1]
          /\ bmp' = IF bmp.release
                    THEN [bmp EXCEPT !.pc = "git"]
                    ELSE [bmp EXCEPT !.pc = "done", !.report = "bumped", !.exit = 0]
     ELSE /\ bmp' = BumpFails(bmp)
          /\ UNCHANGED <<fs, metaVersion>>
  /\ BumpFrame

\* the next git command of createRelease; execSync raises when it fails
BumpGitStep ==
  /\ bmp.pc = "git"
  /\ \E ok \in BOOLEAN :
       LET step == ReleaseSteps[Len(bmp.git) + 1]
           ran == [bmp EXCEPT !.git = Append(bmp.git, [command |-> step, ok |-> ok])]
       IN bmp' = IF ~ok
                 THEN BumpFails(ran)
                 ELSE IF Len(ran.git) = Len(ReleaseSteps)
                      THEN [ran EXCEPT !.pc = "done", !.report = "released", !.exit = 0]
                      ELSE ran
  /\ BumpFrame
  /\ UNCHANGED <<fs, metaVersion>>

InitBump ==
  /\ \E meta, pkg \in BOOLEAN :
       fs = Project(FALSE, meta, pkg, TRUE, {}, FALSE, FALSE, "none", FALSE, FALSE)
  /\ zips = <<>>
  /\ NoBuildYet
  /\ NoOtherCommand

NextBump ==
  \/ StartBump
  \/ BumpValidate
  \/ BumpCheckRepo
  \/ BumpCheckStatus
  \/ BumpVersion
  \/ BumpGitStep

SpecBump == InitBump /\ [][NextBump]_vars

(***************************************************************************)
(* Properties                                                              *)
(***************************************************************************)
Range(q) == {q[i] : i \in 1..Len(q)}

\* a build invocation has run and its process has ended
Ended == pc = "idle" /\ nbuilds > 0

\* createZipPackage was called and control has left it again
PackagerLeft == "Package" \in Range(started) /\ pc # "zip"

\* the names under which the packager copies files into the output tree
InjectedNames == {"metadata.json", "LICENSE", GresourceName(uuid)}

HostCommands == {"gnome-extensions install", "gnome-extensions enable",
                 "gdbus call", "killall"}

\* C1: once the packager has been left, on success or on failure, the
\* output tree holds no metadata.json, LICENSE or <id>.gresource.
C1_CleanupOnEveryExit ==
  PackagerLeft => \A n \in InjectedNames : <<jsDir, n>> \notin DOMAIN fs

\* C2: when Compile, Translate, Resources, Schemas or Package fails, the
\* build stops there: the failed stage is the last one started, nothing of
\* the install tail ran, the error was reported and the exit status is 1.
C2_StageFailureAborts ==
  failedStage \in {"Compile", "Translate", "Resources", "Schemas", "Package"} =>
    /\ pc = "idle"
    /\ exitCode = 1
    /\ errorMsg # ""
    /\ started[Len(started)] = failedStage
    /\ host = NoHost
    /\ Range(cmds) \cap HostCommands = {}

C2_Witness ==
  /\ failedStage = "Resources"
  /\ flags.hasSchemas
  /\ opts.install
  /\ exitCode = 1

FlagOf(stage) ==
  CASE stage = "Compile" -> "usesTS"
    [] stage = "Translate" -> "hasTranslations"
    [] stage = "Resources" -> "hasResources"
    [] stage = "Schemas" -> "hasSchemas"

GatedStages == {"Compile", "Translate", "Resources", "Schemas"}

FailedBefore(stage) ==
  failedStage # "none" /\ StageIndex(failedStage) < StageIndex(stage)

\* C3: a gated stage is entered only with its flag set, and once the build
\* is over it has been entered exactly when its flag was set and no earlier
\* stage had failed.
C3_StageIffFlag ==
  /\ \A s \in GatedStages : s \in Range(started) => flags[FlagOf(s)]
  /\ Ended =>
       \A s \in GatedStages :
         s \in Range(started) <=> (flags[FlagOf(s)] /\ ~FailedBefore(s))

C3_Witness ==
  /\ Ended
  /\ failedStage = "none"
  /\ flags.hasTranslations
  /\ ~flags.hasResources
  /\ flags.hasSchemas
  /\ Range(started) \cap GatedStages = {"Translate", "Schemas"}

\* C4: stages start in the fixed order, each only after the one before it
\* has returned, and nothing but Inspect starts before both identity reads
\* and all four probes have resolved.
C4_StrictSequence ==
  /\ \A i, j \in 1..Len(started) :
       i < j => StageIndex(started[i]) < StageIndex(started[j])
  /\ Len(finished) <= Len(started)
  /\ Len(started) <= Len(finished) + 1
  /\ finished = SubSeq(started, 1, Len(finished))
  /\ Len(started) > 1 => reads = {"metadata", "package"} /\ probes = ProbeNames
  /\ pc \notin {"idle", "identity", "probes"} =>
       reads = {"metadata", "package"} /\ probes = ProbeNames
  /\ "Log out and log back in to apply changes." \in notes =>
       "Enable" \in Range(finished)

C4_Witness == finished = StageOrder

\* C5: the shell reload is attempted only after a successful install and a
\* successful enable, with the unsafe-reload option given.
C5_ReloadNeedsInstallAndEnable ==
  "Reload" \in Range(started) =>
    host.install = "ok" /\ host.enable = "ok" /\ opts.unsafeReload

C7_ReloadOptionInstalls ==
  (Ended /\ argv = {"--unsafe-reload"} /\ succeeded) =>
    "Install" \in Range(started)

\* C8: when createZipPackage has returned, every entry the output tree had
\* when it was entered is still there with the same content.
C8_TreeRestored ==
  "Package" \in Range(finished) =>
    \A p \in DOMAIN preTree : p \in DOMAIN fs /\ fs[p] = preTree[p]

\* C9: success is reported only after the archive tool exited zero in this
\* invocation, and then an archive exists under the name built from the
\* uuid of metadata.json and the version of package.json; exit status 0
\* implies success was reported and every failed build exits with 1.
C9_SuccessMeansArchive ==
  /\ succeeded =>
       /\ zipExit = 0
       /\ (fs[<<"metadata.json">>] \o ".shell-extension-v"
             \o fs[<<"package.json">>] \o ".zip") \in DOMAIN zips
  /\ exitCode = 0 => succeeded
  /\ failedStage # "none" => exitCode = 1
  /\ (Ended /\ ~succeeded) => exitCode = 1

C9_Witness == Ended /\ succeeded /\ exitCode = 0 /\ nbuilds = 2

\* C10: the archive tool never runs while an archive exists at the target
\* path, and after a successful build the archive holds exactly the members
\* of the output tree as it was when the tool ran.
C10_ReplacedNeverMerged ==
  /\ zipExit # -1 => ~zipSawArchive
  /\ succeeded => zips[ZipName(uuid, version)] = zipInput

C10_Witness ==
  /\ succeeded
  /\ ZipName(uuid, version) \in DOMAIN zipsAtStart
  /\ <<(<<"old.js">>), "old">> \in zipsAtStart[ZipName(uuid, version)]

\* the availability checks of the two mandatory tools
MandatoryToolChecks ==
  {"command -v glib-compile-resources", "command -v glib-compile-schemas"}

\* an active stage found its mandatory tool absent in this build
MandatoryToolMissing ==
  \E i \in 1..Len(cmds) : cmds[i] \in MandatoryToolChecks /\ exits[i] = "nonzero"

\* C11: when glib-compile-resources or glib-compile-schemas is found absent
\* by its active stage, the build is over with exit status 1, the packager
\* was never entered, no success was reported and the archives under build/
\* are exactly those that were there when the build started.
C11_MissingToolAborts ==
  MandatoryToolMissing =>
    /\ pc = "idle"
    /\ exitCode = 1
    /\ failedStage \in {"Resources", "Schemas"}
    /\ "Package" \notin Range(started)
    /\ ~succeeded
    /\ zips = zipsAtStart

C11_Witness ==
  /\ MandatoryToolMissing
  /\ failedStage = "Schemas"
  /\ "Resources" \in Range(finished)
  /\ ZipName(uuid, version) \in DOMAIN zipsAtStart

\* C12 as claimed: after every build that ended in failure, each archive
\* that existed when the build started is still there, unchanged.
C12_ArchiveSurvivesFailure ==
  (Ended /\ failedStage # "none") =>
    \A n \in DOMAIN zipsAtStart : n \in DOMAIN zips /\ zips[n] = zipsAtStart[n]

\* C12: the archive at the target path is removed when the packager is
\* entered.  Until then the archives are those the build started with; a
\* build that fails inside the packager leaves no archive at the target
\* path, and an archive is there again only once the build has succeeded.
C12_RemovedAtPackagerEntry ==
  /\ (nbuilds > 0 /\ "Package" \notin Range(started)) => zips = zipsAtStart
  /\ failedStage = "Package" => ZipName(uuid, version) \notin DOMAIN zips
  /\ ("Package" \in Range(started) /\ ZipName(uuid, version) \in DOMAIN zips) =>
       succeeded

C12_Witness ==
  /\ Ended
  /\ failedStage = "Package"
  /\ zipExit = 1
  /\ ZipName(uuid, version) \in DOMAIN zipsAtStart
  /\ ZipName(uuid, version) \notin DOMAIN zips

\* the warning compileTranslations gives when msgfmt is not installed
SkipNote == "gettext (msgfmt) not installed. Skipping translations."

\* C13: when the Translate stage finds msgfmt unavailable it runs msgfmt
\* for no file, writes no catalog and raises no error; the stage counts as
\* finished, Resources and Schemas run as their flags say, and a build in
\* which nothing later fails ends with the archive written.
C13_MissingMsgfmtSkips ==
  SkipNote \in notes =>
    /\ flags.hasTranslations
    /\ "msgfmt" \notin Range(cmds)
    /\ FilesUnder(fs, <<jsDir, "locale">>) \subseteq DOMAIN fsAtStart
    /\ failedStage # "Translate"
    /\ "Translate" \in Range(finished)
    /\ pc \notin {"Translate", "msgfmt"}
    /\ Ended =>
         /\ \A s \in {"Resources", "Schemas"} :
              s \in Range(started) <=> (flags[FlagOf(s)] /\ ~FailedBefore(s))
         /\ failedStage = "none" => succeeded /\ "Package" \in Range(finished)

C13_Witness ==
  /\ SkipNote \in notes
  /\ succeeded
  /\ "Resources" \in Range(finished)
  /\ "Schemas" \in Range(finished)

\* the compiled catalog of a file of po/
MoPath(poFile) == Join(LocaleDir(jsDir, Basename(poFile)), uuid \o ".mo")

\* C14: when msgfmt exits non-zero for a .po file, that run is the last
\* command of the build: the files after it in the listing are not
\* compiled, the build is over with exit status 1 in the Translate stage,
\* the packager was never entered and no archive was written.
C14_TranslationFailFast ==
  \A i \in 1..Len(cmds) :
    (cmds[i] = "msgfmt" /\ exits[i] # "ok") =>
      /\ i = Len(cmds)
      /\ pc = "idle"
      /\ exitCode = 1
      /\ failedStage = "Translate"
      /\ "Package" \notin Range(started)
      /\ ~succeeded
      /\ zips = zipsAtStart
      /\ poQueue # <<>>
      /\ \A k \in 1..Len(poQueue) :
           MoPath(poQueue[k]) \in DOMAIN fs => MoPath(poQueue[k]) \in DOMAIN fsAtStart

C14_Witness ==
  /\ failedStage = "Translate"
  /\ Len(poQueue) = 2
  /\ cmds[Len(cmds)] = "msgfmt"
  /\ exits[Len(exits)] = "nonzero"

\* the archive member holding the compiled catalog of a file of po/
CatalogMember(poFile) ==
  <<(<<"locale", Basename(poFile), "LC_MESSAGES", uuid \o ".mo">>),
    "mo-" \o Basename(poFile)>>

\* C15: after a successful build in which msgfmt was available, the archive
\* holds locale/<lang>/LC_MESSAGES/<uuid>.mo for every po/<lang>.po the
\* project had when the build started, for typed projects as well.
C15_CatalogsInArchive ==
  (succeeded /\ SkipNote \notin notes) =>
    \A n \in ReadDir(fsAtStart, <<"po">>) :
      EndsWith(n, ".po") => CatalogMember(n) \in zips[ZipName(uuid, version)]

C15_Witness ==
  /\ succeeded
  /\ flags.usesTS
  /\ jsDir = "dist"
  /\ Range(cmds) \cap {"msgfmt"} # {}
  /\ {CatalogMember("en.po"), CatalogMember("fr.po")} \subseteq zips[ZipName(uuid, version)]

\* the build was started in a directory lacking metadata.json or package.json
IdentityMissing ==
  /\ nbuilds > 0
  /\ \/ <<"metadata.json">> \notin DOMAIN fsAtStart
     \/ <<"package.json">> \notin DOMAIN fsAtStart

\* C16: a build started without metadata.json or without package.json never
\* gets past Inspect: no probe resolves, no stage starts, no command is
\* run, the filesystem and the archives stay as they were, and the build
\* ends with exit status 1.
C16_IdentityMissingAborts ==
  IdentityMissing =>
    /\ pc \in {"identity", "idle"}
    /\ probes = {}
    /\ started = <<"Inspect">>
    /\ cmds = <<>>
    /\ fs = fsAtStart
    /\ zips = zipsAtStart
    /\ ~succeeded
    /\ pc = "idle" => failedStage = "Inspect" /\ exitCode = 1

C16_Witness ==
  /\ Ended
  /\ failedStage = "Inspect"
  /\ exitCode = 1
  /\ <<"package.json">> \notin DOMAIN fsAtStart
  /\ "metadata" \in reads

\* Compile has just returned successfully
CompileDone == flags.usesTS /\ pc = "Translate"

\* the file of dist/ that a regular file of src/ gives rise to
OutputOf(p) ==
  SubSeq(DistPath(p), 1, Len(p) - 1) \o <<EmittedName(p[Len(p)])>>

\* C17: when Compile returns, the output tree is a function of the source
\* tree alone: it holds one "compiled" file per .ts source and one copy per
\* other source file, and nothing else, so nothing of an earlier build is
\* left and compiling the same sources again gives the same tree.
C17_CompileFromScratch ==
  CompileDone =>
    /\ \A p \in FilesUnder(fs, <<"src">>) :
         /\ OutputOf(p) \in DOMAIN fs
         /\ fs[OutputOf(p)] = IF EndsWith(p[Len(p)], ".ts") THEN "compiled" ELSE fs[p]
    /\ \A q \in DOMAIN Tree(fs, "dist") :
         \E p \in FilesUnder(fs, <<"src">>) : q = OutputOf(p)
    /\ Tree(fs, "src") = Tree(fsAtStart, "src")

C17_Witness ==
  /\ CompileDone
  /\ nbuilds = 2
  /\ <<"dist", "metadata.json">> \in DOMAIN fsAtStart
  /\ \E q \in DOMAIN Tree(fsAtStart, "dist") : q[2] = "locale"
  /\ <<"dist", "extension.js">> \in DOMAIN fsAtStart

\* C18: when bunx tsc ran and exited non-zero the build fails in Compile
\* without trying npx tsc; npx tsc is run only after bunx could not be
\* started at all.
C18_CompilerExitIsFatal ==
  \A i \in 1..Len(cmds) :
    /\ (cmds[i] = "bunx tsc" /\ exits[i] = "nonzero") =>
         /\ "npx tsc" \notin Range(cmds)
         /\ "Compile" \notin Range(finished)
         /\ ~succeeded
    /\ (cmds[i] = "npx tsc" /\ i > 1) => exits[i - 1] = "enoent"

\* the root files the packager adds to a plain project's archive
RootMembers(f) ==
  {<<"metadata.json">>} \cup
  (IF <<"LICENSE">> \in DOMAIN f THEN {<<"LICENSE">>} ELSE {})

\* the archive of a plain project: the src/ tree, with metadata.json and,
\* when the root has one, LICENSE taken from the project root
PlainArchive(f) ==
  {<<q, f[q]>> : q \in RootMembers(f)} \cup
  {<<Relative(<<"src">>, p), f[p]>> :
     p \in {r \in DOMAIN Tree(f, "src") : Relative(<<"src">>, r) \notin RootMembers(f)}}

\* C19: after a successful build of a project with all four flags false
\* the archive holds the src/ tree the build started with, metadata.json
\* of the project root and, exactly when the root has a LICENSE, that
\* LICENSE, and no other member.
C19_PlainProjectArchive ==
  (succeeded /\ flags = NoFlags) =>
    zips[ZipName(uuid, version)] = PlainArchive(fsAtStart)

C19_Witness ==
  /\ succeeded
  /\ flags = NoFlags
  /\ <<"LICENSE">> \notin DOMAIN fsAtStart
  /\ <<(<<"extension.js">>), fsAtStart[<<"src", "extension.js">>]>>
       \in zips[ZipName(uuid, version)]
  /\ ZipName(uuid, version) \in DOMAIN zipsAtStart

\* the members the packager adds to the output tree: the given root files,
\* LICENSE when the root has one, and the resource blob when one was produced
AddedMembers(rootFiles) ==
  {<<(<<n>>), fs[<<n>>]>> : n \in rootFiles} \cup
  (IF <<"LICENSE">> \in DOMAIN fs THEN {<<(<<"LICENSE">>), fs[<<"LICENSE">>]>>} ELSE {}) \cup
  (IF resourceTarget # Null
   THEN {<<(<<GresourceName(uuid)>>), fs[resourceTarget]>>}
   ELSE {})

\* the output tree as the packager found it, with the added members on top
PackagedArchive(rootFiles) ==
  LET added == AddedMembers(rootFiles)
  IN added \cup
     {<<Relative(<<jsDir>>, p), preTree[p]>> :
        p \in {r \in DOMAIN preTree :
                 ~\E m \in added : m[1] = Relative(<<jsDir>>, r)}}

\* C20 as claimed: the archive of a successful build is the output tree
\* plus metadata.json and package.json, plus the resource blob when one was
\* produced and LICENSE when present, and nothing else.
C20_TwoMetadataFiles ==
  succeeded =>
    zips[ZipName(uuid, version)] = PackagedArchive({"metadata.json", "package.json"})

\* C20: the archive of a successful build is the output tree as it was
\* when the packager was entered plus metadata.json, plus the resource blob
\* when one was produced and LICENSE when the root has one, and nothing
\* else; package.json is a member only if the output tree held one.
C20_OneMetadataFile ==
  succeeded =>
    /\ zips[ZipName(uuid, version)] = PackagedArchive({"metadata.json"})
    /\ <<"package.json">> \in {m[1] : m \in zips[ZipName(uuid, version)]} =>
         <<jsDir, "package.json">> \in DOMAIN preTree

C20_Witness ==
  /\ succeeded
  /\ resourceTarget # Null
  /\ <<"LICENSE">> \in DOMAIN fs
  /\ <<(<<GresourceName(uuid)>>), "blob">> \in zips[ZipName(uuid, version)]
  /\ <<(<<"metadata.json">>), ExtUuid>> \in zips[ZipName(uuid, version)]

\* first path segments an archive member must not have
OutputRoots == {"dist", "src", "build", ""}

\* a member path relative to the output tree
FlatRooted(m) == m[1] # <<>> /\ m[1][1] \notin OutputRoots

\* C21: every member handed to the archive tool, and every member of the
\* archive a successful build wrote, has a non-empty path relative to the
\* output tree: it does not start with dist, src or build and is not
\* absolute.
C21_FlatRootedArchive ==
  /\ \A m \in zipInput : FlatRooted(m)
  /\ succeeded => \A m \in zips[ZipName(uuid, version)] : FlatRooted(m)

C21_Witness ==
  /\ succeeded
  /\ jsDir = "dist"
  /\ \E m \in zips[ZipName(uuid, version)] : Len(m[1]) > 1
  /\ <<(<<"extension.js">>), "compiled">> \in zips[ZipName(uuid, version)]

\* the packager of a build with the install option has been entered, and
\* the build before it was one whose install step failed
RetryAfterFailedInstall ==
  /\ nbuilds > 1
  /\ prevInstall = "failed"
  /\ opts.install
  /\ "Package" \in Range(started)

\* C22: when a build with the install option follows a build whose install
\* step failed, the output tree it started with and the output tree its
\* packager finds hold no metadata.json, LICENSE or <uuid>.gresource.
C22_RetryFromCleanTree ==
  RetryAfterFailedInstall =>
    \A n \in InjectedNames :
      /\ <<jsDir, n>> \notin DOMAIN fsAtStart
      /\ <<jsDir, n>> \notin DOMAIN preTree

C22_Witness ==
  /\ RetryAfterFailedInstall
  /\ jsDir = "src"
  /\ resourceTarget # Null
  /\ <<"LICENSE">> \in DOMAIN fs
  /\ pc = "zip"

\* the descriptor the four probes compute on a project directory
DescriptorAt(f) ==
  [usesTS |-> UsesTypeScript(f),
   hasTranslations |-> HasTranslations(f),
   hasResources |-> HasResources(f),
   hasSchemas |-> HasSchemas(f)]

\* C23: from the end of Inspect on, the flags and the output directory are
\* those probed on the directory the build started with, whatever the
\* directory looks like by now, and a gated stage is entered only if its
\* flag was set then; a build that ends without failure has entered
\* exactly the stages whose flag was set then.
C23_DescriptorComputedOnce ==
  "Inspect" \in Range(finished) =>
    /\ flags = DescriptorAt(fsAtStart)
    /\ jsDir = GetJsDir(fsAtStart)
    /\ \A s \in GatedStages : s \in Range(started) => flags[FlagOf(s)]
    /\ (Ended /\ failedStage = "none") =>
         \A s \in GatedStages : s \in Range(started) <=> flags[FlagOf(s)]

C23_Witness ==
  /\ Ended
  /\ succeeded
  /\ ~flags.hasSchemas
  /\ HasSchemas(fs)
  /\ "Schemas" \notin Range(started)

\* C24: each of hasTranslations, hasResources and hasSchemas is true
\* exactly when its directory holds at least one file of use to its stage:
\* a .po file in po/, a regular file somewhere under data/, a regular file
\* under <jsDir>/schemas.  A missing directory, an empty one and one that
\* holds only empty subdirectories give false.
C24_ProbesNeedRelevantFile ==
  "Inspect" \in Range(finished) =>
    /\ flags.hasTranslations <=>
         \E n \in ReadDir(fsAtStart, <<"po">>) : EndsWith(n, ".po")
    /\ flags.hasResources <=> FilesUnder(fsAtStart, <<"data">>) # {}
    /\ flags.hasSchemas <=>
         FilesUnder(fsAtStart, <<GetJsDir(fsAtStart), "schemas">>) # {}

RestartCommands == {"gdbus call", "killall"}

\* C25: when restartGnomeShell finds a Wayland session it runs neither the
\* gdbus Eval call nor killall and reports failure; the restart commands
\* are run in X11 sessions only.
C25_NoReloadOnWayland ==
  /\ host.session = "wayland" =>
       /\ Range(cmds) \cap RestartCommands = {}
       /\ host.reload = "refused"
  /\ Range(cmds) \cap RestartCommands # {} => host.session = "x11"

C25_Witness ==
  /\ Ended
  /\ host.session = "wayland"
  /\ host.install = "ok"
  /\ "Reload" \in Range(finished)
  /\ cmds[Len(cmds)] = "gnome-extensions enable"

\* C26: a stage that started its spinner resolves it with one terminal
\* status before the next stage starts its own and before the process
\* ends, also when a tool run through execOrThrow exits non-zero.
C26_EverySpinnerResolved ==
  /\ \A i \in 1..(Len(spinners) - 1) : spinners[i].status # "spinning"
  /\ pc = "idle" => \A i \in 1..Len(spinners) : spinners[i].status # "spinning"

\* the error runTscWithFallback raises when its candidates are exhausted
CompilerNotFound ==
  "Build failed: Failed to run TypeScript compiler - tried bunx and npx"

\* C27: npx tsc is run only right after a bunx tsc that did not succeed;
\* after a successful bunx tsc or npx tsc the Compile stage has finished,
\* and after bunx tsc succeeded npx tsc is not run; when npx tsc fails too
\* the build ends there with the error of the exhausted chain, and a chain
\* that was entered makes the stage fail in no other case.
C27_OrderedFallbackChain ==
  /\ \A i \in 1..Len(cmds) :
       /\ cmds[i] = "npx tsc" =>
            i > 1 /\ cmds[i - 1] = "bunx tsc" /\ exits[i - 1] # "ok"
       /\ (cmds[i] = "bunx tsc" /\ exits[i] = "ok") =>
            "Compile" \in Range(finished) /\ "npx tsc" \notin Range(cmds)
       /\ (cmds[i] = "npx tsc" /\ exits[i] = "ok") => "Compile" \in Range(finished)
       /\ (cmds[i] = "npx tsc" /\ exits[i] # "ok") =>
            /\ i = Len(cmds)
            /\ pc = "idle"
            /\ exitCode = 1
            /\ failedStage = "Compile"
            /\ errorMsg = CompilerNotFound
  /\ ("bunx tsc" \in Range(cmds) /\ failedStage = "Compile") =>
       \E i \in 2..Len(cmds) :
         /\ cmds[i - 1] = "bunx tsc" /\ exits[i - 1] # "ok"
         /\ cmds[i] = "npx tsc" /\ exits[i] # "ok"

C27_Witness ==
  /\ "Compile" \in Range(finished)
  /\ \E i \in 2..Len(cmds) :
       /\ cmds[i - 1] = "bunx tsc" /\ exits[i - 1] = "enoent"
       /\ cmds[i] = "npx tsc" /\ exits[i] = "ok"
  /\ succeeded

BundlerCommand == "bun ./scripts/esbuild.js"

\* the warning for a requested bundler without its configuration
NoBundlerConfigNote ==
  "esbuild requested but scripts/esbuild.js not found. Using tsc instead."

\* the Compile stage of this build has chosen its compiler
CompilerChosen ==
  \/ pc \in {"esbuild", "bunx", "npx"}
  \/ Range(cmds) \cap {BundlerCommand, "bunx tsc"} # {}

\* bundling was requested and scripts/esbuild.js exists
BundlerSelected ==
  opts.useEsbuild /\ <<"scripts", "esbuild.js">> \in DOMAIN fsAtStart

\* C28: once the Compile stage has chosen, it runs the bundler if bundling
\* was requested and scripts/esbuild.js exists and the tsc chain otherwise,
\* never both; a requested bundler without its configuration gives the
\* warning, and then the stage fails only if the tsc chain is exhausted.
C28_CompilerSelection ==
  CompilerChosen =>
    /\ BundlerSelected =>
         /\ pc = "esbuild" \/ BundlerCommand \in Range(cmds)
         /\ Range(cmds) \cap {"bunx tsc", "npx tsc"} = {}
         /\ pc \notin {"bunx", "npx"}
    /\ ~BundlerSelected =>
         /\ pc = "bunx" \/ "bunx tsc" \in Range(cmds)
         /\ BundlerCommand \notin Range(cmds)
         /\ pc # "esbuild"
    /\ NoBundlerConfigNote \in notes <=> (opts.useEsbuild /\ ~BundlerSelected)
    /\ (NoBundlerConfigNote \in notes /\ failedStage = "Compile") =>
         errorMsg = CompilerNotFound

C28_Witness ==
  /\ NoBundlerConfigNote \in notes
  /\ "Compile" \in Range(finished)
  /\ "bunx tsc" \in Range(cmds)
  /\ "bun install" \in Range(cmds)

\* the project had its dependencies installed when the build started
DepsPresent == <<"node_modules">> \in DOMAIN fsAtStart

\* C29: in a Compile stage that finds node_modules absent, bun install is
\* the first command and runs before any compiler; when it exits non-zero
\* it is the only command of the build, which fails in Compile.  With
\* node_modules present, bun install is not run.
C29_InstallBeforeCompile ==
  "Compile" \in Range(started) =>
    /\ ~DepsPresent => pc = "bunInstall" \/ (cmds # <<>> /\ cmds[1] = "bun install")
    /\ DepsPresent => "bun install" \notin Range(cmds) /\ pc # "bunInstall"
    /\ \A i \in 1..Len(cmds) :
         /\ cmds[i] = "bun install" => i = 1
         /\ (cmds[i] = "bun install" /\ exits[i] # "ok") =>
              /\ Len(cmds) = 1
              /\ pc = "idle"
              /\ exitCode = 1
              /\ failedStage = "Compile"
              /\ "Compile" \notin Range(finished)

C29_Witness ==
  /\ failedStage = "Compile"
  /\ cmds = <<"bun install">>
  /\ exits = <<"nonzero">>
  /\ opts.useEsbuild
  /\ <<"scripts", "esbuild.js">> \in DOMAIN fs

\* C30: when Compile has returned, every regular file of src/ whose name
\* does not end in .ts has a copy with the same content at the same
\* relative path under dist/, and dist/ holds no file whose name ends in
\* .ts.
C30_AssetsCopied ==
  CompileDone =>
    /\ \A p \in FilesUnder(fs, <<"src">>) :
         ~EndsWith(p[Len(p)], ".ts") =>
           /\ (<<"dist">> \o Tail(p)) \in DOMAIN fs
           /\ fs[<<"dist">> \o Tail(p)] = fs[p]
    /\ \A q \in FilesUnder(fs, <<"dist">>) : ~EndsWith(q[Len(q)], ".ts")

C30_Witness ==
  /\ CompileDone
  /\ <<"src", "schemas", "org.gschema.xml">> \in DOMAIN fs
  /\ <<"dist", "schemas", "org.gschema.xml">> \in DOMAIN fs
  /\ <<"dist", "stylesheet.css">> \in DOMAIN fs
  /\ <<"src", "extension.ts">> \in DOMAIN fs
  /\ BundlerCommand \in Range(cmds)

\* the directory of the pair dist, src that is not the output directory
OtherDir == IF jsDir = "dist" THEN "src" ELSE "dist"

\* C31: from the end of Inspect on, the output directory is dist if
\* tsconfig.json was present when the build started and src otherwise; the
\* schema flag was probed under it, the catalogs and the compiled schemas are
\* written under it, nothing is written under the other directory of the
\* two, and the archive of a successful build holds files of it only.
C31_SingleOutputDir ==
  "Inspect" \in Range(finished) =>
    /\ jsDir = (IF <<"tsconfig.json">> \in DOMAIN fsAtStart THEN "dist" ELSE "src")
    /\ flags.hasSchemas <=> ReadDir(fsAtStart, <<jsDir, "schemas">>) # {}
    /\ \A p \in DOMAIN fs \cup DOMAIN fsAtStart :
         p[1] = OtherDir =>
           /\ p \in DOMAIN fs \cap DOMAIN fsAtStart
           /\ fs[p] = fsAtStart[p]
    /\ ("Translate" \in Range(finished) /\ SkipNote \notin notes) =>
         \A n \in ReadDir(fsAtStart, <<"po">>) :
           EndsWith(n, ".po") =>
             <<jsDir, "locale", Basename(n), "LC_MESSAGES", uuid \o ".mo">> \in DOMAIN fs
    /\ "Schemas" \in Range(finished) =>
         <<jsDir, "schemas", "gschemas.compiled">> \in DOMAIN fs
    /\ succeeded =>
         \A m \in zips[ZipName(uuid, version)] :
           \/ m[1] \in {<<n>> : n \in InjectedNames}
           \/ /\ <<jsDir>> \o m[1] \in DOMAIN fs
              /\ fs[<<jsDir>> \o m[1]] = m[2]

C31_Witness ==
  /\ succeeded
  /\ jsDir = "dist"
  /\ "Translate" \in Range(finished)
  /\ "Schemas" \in Range(finished)
  /\ <<"dist", "schemas", "gschemas.compiled">> \in DOMAIN fs
  /\ <<"src", "schemas", "gschemas.compiled">> \notin DOMAIN fs
  /\ <<(<<"schemas", "gschemas.compiled">>), "schemas-bin">> \in zips[ZipName(uuid, version)]

\* the commands buildCommand runs through shell.execOrThrow with no handler
\* of its own around the call
ThrowingCommands ==
  {"bun install", BundlerCommand, "msgfmt", "glib-compile-resources",
   "glib-compile-schemas", "zip"}

\* the commands run through shell.exec or shell.execCommand
ReturningCommands ==
  {"command -v msgfmt", "command -v glib-compile-resources",
   "command -v glib-compile-schemas", "gnome-extensions install",
   "gnome-extensions enable", "gdbus call", "killall"}

\* the command at position i of this build ended it with the error of
\* execOrThrow
RaisedAt(i) ==
  /\ i = Len(cmds)
  /\ failedStage # "none"
  /\ errorMsg = "Build failed: " \o CommandFailed(cmds[i])

\* C32: every command has its outcome recorded; a command run through
\* execOrThrow ends the build with "Command failed: <command>" exactly when
\* it did not exit 0 (for the tsc chain: the next compiler is tried exactly
\* then); a command run through exec never produces that error whatever
\* its exit code, and the caller sees the code: install and enable are
\* reported as done exactly when their command exited 0.
C32_RunnerContract ==
  /\ Len(exits) = Len(cmds)
  /\ \A i \in 1..Len(cmds) :
       /\ cmds[i] \in ThrowingCommands => (exits[i] # "ok" <=> RaisedAt(i))
       /\ cmds[i] = "bunx tsc" =>
            (exits[i] # "ok" <=>
               \/ i = Len(cmds) /\ pc = "npx"
               \/ i < Len(cmds) /\ cmds[i + 1] = "npx tsc")
       /\ cmds[i] = "npx tsc" =>
            (exits[i] # "ok" <=>
               i = Len(cmds) /\ failedStage = "Compile" /\ errorMsg = CompilerNotFound)
       /\ cmds[i] \in ReturningCommands =>
            /\ errorMsg # "Build failed: " \o CommandFailed(cmds[i])
            /\ cmds[i] = "gnome-extensions install" =>
                 (exits[i] = "ok" <=> host.install = "ok")
            /\ cmds[i] = "gnome-extensions enable" =>
                 (exits[i] = "ok" <=> host.enable = "ok")
  /\ Range(cmds) \subseteq
       ThrowingCommands \cup ReturningCommands \cup {"bunx tsc", "npx tsc"}

C32_Witness ==
  /\ Len(cmds) > 2
  /\ cmds[1] = "command -v msgfmt"
  /\ exits[1] = "nonzero"
  /\ cmds[Len(cmds)] = "zip"
  /\ exits[Len(cmds)] = "nonzero"
  /\ errorMsg = "Build failed: " \o CommandFailed("zip")
  /\ exitCode = 1

\* the archive of this build holds the resource blob at its root
BlobShipped ==
  \E m \in zips[ZipName(uuid, version)] : m[1] = <<GresourceName(uuid)>>

\* C33: the archive of a successful build holds <uuid>.gresource exactly
\* when the Resources stage of that build ran and produced a blob; a build
\* without resources ships no blob of an earlier build.
C33_BlobIffResourcesRan ==
  succeeded => (BlobShipped <=> "Resources" \in Range(finished))

\* the manifest of this build
ManifestPath == <<"build", uuid \o ".gresource.xml">>

\* the manifest lines of a sequence of files of data/
RECURSIVE LinesOf(_)
LinesOf(files) ==
  IF files = <<>> THEN ""
  ELSE "<file>" \o PathString(Relative(<<"data">>, Head(files))) \o "</file>"
       \o LinesOf(Tail(files))

\* the Resources stage of this build has written its manifest
ManifestWritten == pc = "glibResources" \/ "glib-compile-resources" \in Range(cmds)

\* C34: once the Resources stage has written the manifest, it holds one
\* line for each regular file below data/ at any depth, by its path relative
\* to data/, each once in some order, and no line for a directory; the
\* resource compiler has run only in builds whose manifest was written.
C34_ManifestListsFiles ==
  /\ ManifestWritten =>
       /\ ManifestPath \in DOMAIN fs
       /\ \E files \in Orderings(FilesUnder(fsAtStart, <<"data">>)) :
            fs[ManifestPath] = XmlContent(LinesOf(files))
  /\ \A i \in 1..Len(cmds) :
       cmds[i] = "glib-compile-resources" =>
         /\ i > 1
         /\ cmds[i - 1] = "command -v glib-compile-resources"
         /\ exits[i - 1] = "ok"

C34_Witness ==
  /\ "Resources" \in Range(finished)
  /\ <<"data", "cache">> \in DOMAIN fsAtStart
  /\ fs[ManifestPath] =
       XmlContent("<file>ui/prefs.ui</file><file>icon.svg</file>")

\* the output tree holds a schemas/ folder with at least one entry
OutputHasSchemas ==
  /\ FileExists(fs, <<jsDir, "schemas">>)
  /\ ReadDir(fs, <<jsDir, "schemas">>) # {}

\* C35: in a build of a typed project that reaches the Schemas stage, the
\* stage is entered exactly when dist/schemas is non-empty at that moment,
\* that is after Compile has cleared and repopulated dist.
C35_SchemasFollowOutputTree ==
  (flags.usesTS /\ pc = "Schemas") => (RunsSchemas <=> OutputHasSchemas)

\* the languages whose catalog is in the archive of this build
ShippedLanguages ==
  {m[1][2] : m \in {n \in zips[ZipName(uuid, version)] :
                      /\ Len(n[1]) = 4
                      /\ n[1][1] = "locale"
                      /\ n[1][4] = uuid \o ".mo"}}

\* msgfmt compiled every .po file the project had when this build started
CatalogsCompiled == "Translate" \in Range(finished) /\ SkipNote \notin notes

\* C36: the archive of a successful build holds a catalog only for a
\* language whose po/<lang>.po the project had when the build started and
\* which msgfmt compiled in this build; catalogs of earlier builds are not
\* shipped, for typed and for untyped projects.
C36_NoStaleCatalogs ==
  succeeded =>
    \A lang \in ShippedLanguages :
      /\ <<"po", lang \o ".po">> \in DOMAIN fsAtStart
      /\ CatalogsCompiled

\* the install or the enable command of this build did not exit 0
HostCommandFailed == host.install = "failed" \/ host.enable = "failed"

\* C37: when gnome-extensions install or enable fails, the build has been
\* packaged before and is not failed by it: no stage is recorded as failed,
\* no "Build failed" error is reported, the archive written by this build
\* stays on disk, and
\* the process ends with exit status 0; enable is attempted only after a
\* successful install.
C37_HostFailureNotFatal ==
  HostCommandFailed =>
    /\ succeeded
    /\ failedStage = "none"
    /\ errorMsg = ""
    /\ exitCode # 1
    /\ ZipName(uuid, version) \in DOMAIN zips
    /\ zips[ZipName(uuid, version)] = zipInput
    /\ host.install = "failed" => (Ended /\ exitCode = 0 /\ host.enable = "none")
    /\ Ended => exitCode = 0

C37_Witness ==
  /\ Ended
  /\ host.install = "ok"
  /\ host.enable = "failed"
  /\ exitCode = 0
  /\ ZipName(uuid, version) \in DOMAIN zips

\* both credentials are known: each was given as an option or is set in the
\* environment
CredentialsGiven ==
  /\ pub.options.username # "" \/ pub.env.username # ""
  /\ pub.options.password # "" \/ pub.env.password # ""

\* C38: publish sends nothing before curl and jq were found, the archive of
\* the project's version was found and both credentials are known; it sends
\* at most the login and then the upload, the upload only after a login
\* that exited 0 and printed a token; it reports success only after an
\* upload whose HTTP code was 201, and it ends with exit status 0 exactly
\* then and with 1 otherwise.
C38_AuthenticateThenUpload ==
  /\ pub.requests # <<>> =>
       /\ pub.curl = "found"
       /\ pub.jq = "found"
       /\ {<<"metadata.json">>, <<"package.json">>} \subseteq DOMAIN fs
       /\ ZipName(fs[<<"metadata.json">>], fs[<<"package.json">>]) \in DOMAIN zips
       /\ CredentialsGiven
  /\ pub.requests \in {<<>>, <<"login">>, <<"login", "upload">>}
  /\ (pub.pc = "upload" \/ "upload" \in Range(pub.requests)) =>
       /\ pub.loginExit = 0
       /\ pub.loginBody = "{'token': 'abc'}"
       /\ pub.token = "abc"
  /\ pub.report = "success" =>
       /\ pub.requests = <<"login", "upload">>
       /\ pub.httpCode = "201"
  /\ pub.pc = "done" =>
       /\ pub.exit = (IF pub.report = "success" THEN 0 ELSE 1)
       /\ pub.report = "success" <=> pub.httpCode = "201"
  /\ pub.pc # "done" => pub.exit = -1 /\ pub.report = "none"

C38_Witness ==
  /\ pub.pc = "done"
  /\ pub.report = "success"
  /\ pub.exit = 0
  /\ pub.options.username = ""
  /\ pub.env.username = "dev"
  /\ pub.options.password = "secret"

\* the version argument is digits, a dot, digits, a dot, digits
ThreeNumbers == bmp.version \in {"1.2.0", "10.0.3"}

\* package.json and the version fields of metadata.json are as they were
\* before the command
VersionFilesUntouched ==
  /\ <<"package.json">> \in DOMAIN fs => fs[<<"package.json">>] = PkgVersion
  /\ metaVersion = InitialMetaVersion

\* package.json and metadata.json carry the new version
VersionFilesBumped ==
  /\ fs[<<"package.json">>] = bmp.version
  /\ metaVersion = [name |-> bmp.version, number |-> InitialMetaVersion.number + 1]

\* C39: an argument that is not three dot-separated numbers leaves the
\* version files untouched and ends with exit status 1; with --release the
\* files stay untouched and no git command is run unless the directory is a
\* git repository without uncommitted changes; the git commands run are a
\* prefix of add, commit, push, tag, push tag, run after the files were
\* bumped, all but possibly the last successful, a failed one ends the
\* command with exit status 1; the files are either untouched or both
\* bumped; exit status 0 means the bump, and for a release all five git
\* commands, succeeded.
C39_BumpPreconditions ==
  /\ VersionFilesUntouched \/ VersionFilesBumped
  /\ (bmp.pc # "idle" /\ ~ThreeNumbers) =>
       /\ VersionFilesUntouched
       /\ bmp.git = <<>>
       /\ bmp.pc = "done" => bmp.exit = 1
  /\ (bmp.release /\ ~(bmp.repo = "yes" /\ bmp.status = "clean")) =>
       /\ VersionFilesUntouched
       /\ bmp.git = <<>>
       /\ bmp.pc = "done" => bmp.exit = 1
  /\ ~bmp.release => bmp.git = <<>>
  /\ Len(bmp.git) <= Len(ReleaseSteps)
  /\ \A i \in 1..Len(bmp.git) :
       /\ bmp.git[i].command = ReleaseSteps[i]
       /\ i < Len(bmp.git) => bmp.git[i].ok
       /\ ~bmp.git[i].ok => (bmp.pc = "done" /\ bmp.exit = 1)
  /\ bmp.git # <<>> => VersionFilesBumped
  /\ (bmp.pc = "done" /\ bmp.exit = 0) =>
       /\ VersionFilesBumped
       /\ bmp.release =>
            (Len(bmp.git) = Len(ReleaseSteps) /\ \A i \in 1..Len(bmp.git) : bmp.git[i].ok)
  /\ DOMAIN fs = DOMAIN Project(FALSE, <<"metadata.json">> \in DOMAIN fs,
                                <<"package.json">> \in DOMAIN fs, TRUE, {}, FALSE,
                                FALSE, "none", FALSE, FALSE)

C39_Witness ==
  /\ bmp.pc = "done"
  /\ bmp.release
  /\ bmp.version = "10.0.3"
  /\ Len(bmp.git) = 3
  /\ ~bmp.git[3].ok
  /\ bmp.exit = 1
  /\ VersionFilesBumped
====
